---- MODULE Spec2Model ----
(***************************************************************************)
(* A model of the X2Discord polling and delivery engine                    *)
(* (app/poller.py, app/store.py, app/redis_store.py, app/rsshub_client.py, *)
(* app/utils.py).                                                          *)
(*                                                                         *)
(* Python strings are modelled as tuples of one-character strings, so that *)
(* stripping, prefix tests and concatenation are computed, not assumed.    *)
(* Python's None is the distinguished tuple NoneStr (for optional strings) *)
(* and NoTime (for optional monotonic time stamps).                        *)
(***************************************************************************)
EXTENDS Integers, Sequences, FiniteSets, TLC

(***************************************************************************)
(* Program constants.                                                      *)
(***************************************************************************)
ACCOUNT_MIN_INTERVAL_SECONDS == 30
FORBIDDEN_MIN_BACKOFF == 60
BACKOFF_BASE_FLOOR == 60
BACKOFF_MULTIPLIER_CAP == 16
FIRST_POLL_MAX_RESULTS == 1
STEADY_MAX_RESULTS == 5
MINIMUM_RESULTS == 1
MAXIMUM_RESULTS == 100
max_links_per_channel == 1000
default_interval_seconds == 60
min_interval_seconds == 60

(***************************************************************************)
(* Bounds of the model.                                                    *)
(***************************************************************************)
MaxPolls == 2
MaxTicks == 3
MaxBackoffPolls == 6
MaxBackoffTicks == 6
MaxTime == 3000
StartTime == 1
MaxAccountLen == 3
MaxKeywordInputLen == 3
MaxRawFeedLen == 2
MaxLinks == 2
MaxStoreCalls == 2

(***************************************************************************)
(* Strings.                                                                *)
(***************************************************************************)
EMPTY == << >>
NoneStr == << "<None>" >>
NoTime == -1
\* None for an Optional[int] argument and for an Optional[bool] argument, a
\* given bool b being << b >>
NoneInt == -1
NoneBool == << >>

Truthy(s) == s # NoneStr /\ s # EMPTY
TruthyNum(x) == x # NoTime /\ x # 0
Or(a, b) == IF Truthy(a) THEN a ELSE b
Max(a, b) == IF a >= b THEN a ELSE b
Min(a, b) == IF a <= b THEN a ELSE b

IsSpace(c) == c \in {" ", "\n", "\t", "nbsp"}
IsLineBreak(c) == c = "\n"
\* str.isdecimal on one character
IsDecimal(c) == c \in {"0", "1", "2", "3", "4", "5", "6", "7", "8", "9"}
\* str.isdigit on one character: the decimal digits and the digits that are
\* not decimal, of which "U00B2" (SUPERSCRIPT TWO) stands here
IsDigit(c) == IsDecimal(c) \/ c = "U00B2"
IsAlpha(c) == c \in {"a", "b", "f", "h", "i", "o", "r", "t", "x", "A", "R", "T", "O",
                     "U30EA", "U30C4", "U30A4", "U30FC", "U30C8", "U5F15", "U7528"}
IsAlnum(c) == IsAlpha(c) \/ IsDigit(c)

LowerChar(c) ==
    CASE c = "A" -> "a"
      [] c = "R" -> "r"
      [] c = "T" -> "t"
      [] c = "O" -> "o"
      [] c = "C" -> "c"
      [] OTHER -> c

NFKCChar(c) == IF c = "nbsp" THEN " " ELSE c

MapStr(s, F(_)) == [i \in 1..Len(s) |-> F(s[i])]
Lower(s) == MapStr(s, LowerChar)

RECURSIVE LStrip(_)
LStrip(s) == IF s # EMPTY /\ IsSpace(Head(s)) THEN LStrip(Tail(s)) ELSE s

RECURSIVE RStrip(_)
RStrip(s) ==
    IF s # EMPTY /\ IsSpace(s[Len(s)]) THEN RStrip(SubSeq(s, 1, Len(s) - 1)) ELSE s

Strip(s) == RStrip(LStrip(s))

StartsWith(s, p) == Len(s) >= Len(p) /\ SubSeq(s, 1, Len(p)) = p
EndsWith(s, p) == Len(s) >= Len(p) /\ SubSeq(s, Len(s) - Len(p) + 1, Len(s)) = p
Contains(s, p) == \E i \in 0..(Len(s) - Len(p)) : SubSeq(s, i + 1, i + Len(p)) = p

\* str.lstrip("@")
RECURSIVE LStripAt(_)
LStripAt(s) == IF s # EMPTY /\ Head(s) = "@" THEN LStripAt(Tail(s)) ELSE s

\* str.splitlines(), for the line break the model's alphabet has
RECURSIVE SplitLinesFrom(_, _)
SplitLinesFrom(s, cur) ==
    IF s = EMPTY THEN (IF cur = EMPTY THEN << >> ELSE << cur >>)
    ELSE IF IsLineBreak(Head(s)) THEN << cur >> \o SplitLinesFrom(Tail(s), EMPTY)
    ELSE SplitLinesFrom(Tail(s), Append(cur, Head(s)))

SplitLines(s) == SplitLinesFrom(s, EMPTY)

\* str.isdigit() and int() of a decimal string
IsDigitStr(s) == s # EMPTY /\ \A i \in 1..Len(s) : IsDigit(s[i])
\* int(s) raises ValueError, for a string s that str.isdigit accepts
IntRaises(s) == \E i \in 1..Len(s) : ~IsDecimal(s[i])

DigitVal(c) ==
    CASE c = "0" -> 0 [] c = "1" -> 1 [] c = "2" -> 2 [] c = "3" -> 3
      [] c = "4" -> 4 [] c = "5" -> 5 [] c = "6" -> 6 [] c = "7" -> 7
      [] c = "8" -> 8 [] c = "9" -> 9

RECURSIVE ParseInt(_)
ParseInt(s) ==
    IF s = EMPTY THEN 0
    ELSE 10 * ParseInt(SubSeq(s, 1, Len(s) - 1)) + DigitVal(s[Len(s)])

\* str(index), in decimal
DigitChar(d) ==
    CASE d = 0 -> "0" [] d = 1 -> "1" [] d = 2 -> "2" [] d = 3 -> "3" [] d = 4 -> "4"
      [] d = 5 -> "5" [] d = 6 -> "6" [] d = 7 -> "7" [] d = 8 -> "8" [] d = 9 -> "9"

RECURSIVE IntStr(_)
IntStr(n) ==
    IF n < 10 THEN << DigitChar(n) >> ELSE IntStr(n \div 10) \o << DigitChar(n % 10) >>

Reverse(s) == [i \in 1..Len(s) |-> s[Len(s) + 1 - i]]

(***************************************************************************)
(* app/utils.py                                                            *)
(***************************************************************************)
normalize_keyword_text(value) ==
    IF ~Truthy(value) THEN EMPTY
    ELSE Strip(Lower(MapStr(value, NFKCChar)))


\* faulty variant: pieces that are empty after normalization are kept
normalize_keywords_keeps_empty(values) ==
    [i \in 1..Len(values) |-> normalize_keyword_text(values[i])]

normalize_keywords(values) ==
    LET kept == SelectSeq(values, LAMBDA v : Truthy(v) /\ normalize_keyword_text(v) # EMPTY)
    IN  [i \in 1..Len(kept) |-> normalize_keyword_text(kept[i])]

\* re.split(r"[\n,]+", value): cur is the piece being read
IsSeparator(c) == c \in { ",", "\n" }

RECURSIVE SkipSeparators(_)
SkipSeparators(s) ==
    IF s # EMPTY /\ IsSeparator(Head(s)) THEN SkipSeparators(Tail(s)) ELSE s

RECURSIVE SplitOnRuns(_, _)
SplitOnRuns(s, cur) ==
    IF s = EMPTY THEN << cur >>
    ELSE IF IsSeparator(Head(s)) THEN << cur >> \o SplitOnRuns(SkipSeparators(Tail(s)), EMPTY)
    ELSE SplitOnRuns(Tail(s), Append(cur, Head(s)))

parse_keyword_input(value) ==
    IF ~Truthy(value) THEN << >>
    ELSE normalize_keywords(SplitOnRuns(value, EMPTY))

(***************************************************************************)
(* app/store.py                                                            *)
(***************************************************************************)
ValueError == << "<ValueError>" >>
HTTPS_PREFIX == << "h", "t", "t", "p", "s", ":", "/", "/" >>
HTTP_PREFIX == << "h", "t", "t", "p", ":", "/", "/" >>

RECURSIVE StripTrailingSlashes(_)
StripTrailingSlashes(s) ==
    IF EndsWith(s, << "/" >>) THEN StripTrailingSlashes(SubSeq(s, 1, Len(s) - 1)) ELSE s

\* value.split("/")[-1]
RECURSIVE AfterLastSlash(_)
AfterLastSlash(s) ==
    IF \E i \in 1..Len(s) : s[i] = "/"
    THEN AfterLastSlash(SubSeq(s, (CHOOSE i \in 1..Len(s) : s[i] = "/" /\ \A j \in 1..(i - 1) : s[j] # "/") + 1, Len(s)))
    ELSE s

\* SubscriptionStore._normalize_account; ValueError stands for the raise
normalize_account(value) ==
    LET c0 == Strip(value)
        c1 == StripTrailingSlashes(c0)
        c2 == IF StartsWith(c1, HTTPS_PREFIX) \/ StartsWith(c1, HTTP_PREFIX)
              THEN AfterLastSlash(c1) ELSE c1
        c3 == IF StartsWith(c2, << "@" >>) THEN Tail(c2) ELSE c2
    IN  IF c0 = EMPTY THEN ValueError ELSE c3

\* SubscriptionStore._derive_interval_seconds; 0 stands for a missing or
\* non-positive field
derive_interval_seconds(entry) ==
    IF entry.interval_seconds > 0 THEN entry.interval_seconds
    ELSE IF entry.interval_minutes > 0 THEN entry.interval_minutes * 60
    ELSE default_interval_seconds

\* The keyword lists of a subscription record (spec section 3): the poller
\* and the tests read them, the Subscription of store.py does not hold them.
SubscriptionKeywords(entry) ==
    [include_keywords |-> entry.include_keywords,
     exclude_keywords |-> entry.exclude_keywords]

\* The Subscription that get_subscriptions builds from one stored entry
Subscription(channel_id, entry) ==
    [channel_id |-> channel_id,
     account |-> entry.account,
     interval_seconds |-> derive_interval_seconds(entry),
     include_reposts |-> entry.include_reposts,
     include_quotes |-> entry.include_quotes,
     start_offset_minutes |-> entry.start_offset_minutes,
     thread_id |-> entry.thread_id,
     last_tweet_id |-> entry.last_tweet_id,
     include_keywords |-> SubscriptionKeywords(entry).include_keywords,
     exclude_keywords |-> SubscriptionKeywords(entry).exclude_keywords]

\* the store's _data: the channels in insertion order, each with its entries
RECURSIVE get_subscriptions(_)
get_subscriptions(d) ==
    IF d = << >> THEN << >>
    ELSE LET bucket == Head(d)
             kept == SelectSeq(bucket.entries, LAMBDA e : Truthy(e.account))
         IN  [i \in 1..Len(kept) |-> Subscription(bucket.channel, kept[i])]
             \o get_subscriptions(Tail(d))

Bucket(d, channel_id) ==
    IF \E i \in 1..Len(d) : d[i].channel = channel_id
    THEN d[CHOOSE i \in 1..Len(d) : d[i].channel = channel_id].entries
    ELSE << >>

FirstIndex(entries, account) ==
    IF \E i \in 1..Len(entries) : entries[i].account = account
    THEN CHOOSE i \in 1..Len(entries) :
            entries[i].account = account /\ \A j \in 1..(i - 1) : entries[j].account # account
    ELSE 0

\* SubscriptionStore.get_last_tweet_id
get_last_tweet_id(d, channel_id, account) ==
    LET normalized == normalize_account(account)
        bucket == Bucket(d, channel_id)
        k == FirstIndex(bucket, normalized)
    IN  IF k = 0 THEN NoneStr ELSE bucket[k].last_tweet_id

\* faulty variant: an entry is made for a subscription that is not there
set_last_tweet_id_upsert(d, channel_id, account, tweet_id) ==
    IF \E b \in 1..Len(d) :
          d[b].channel = channel_id /\ FirstIndex(d[b].entries, normalize_account(account)) # 0
    THEN [b \in 1..Len(d) |->
            IF d[b].channel # channel_id THEN d[b]
            ELSE [d[b] EXCEPT !.entries =
                    [i \in 1..Len(d[b].entries) |->
                        IF i = FirstIndex(d[b].entries, normalize_account(account))
                        THEN [d[b].entries[i] EXCEPT !.last_tweet_id = tweet_id]
                        ELSE d[b].entries[i]]]]
    ELSE Append(d, [channel |-> channel_id,
                    entries |-> << [account |-> normalize_account(account),
                                    interval_seconds |-> default_interval_seconds,
                                    interval_minutes |-> 0, include_reposts |-> FALSE,
                                    include_quotes |-> FALSE, start_offset_minutes |-> 0,
                                    thread_id |-> 0, last_tweet_id |-> tweet_id,
                                    include_keywords |-> << >>, exclude_keywords |-> << >>] >>])

\* SubscriptionStore.set_last_tweet_id: the new _data (saved to the file)
set_last_tweet_id(d, channel_id, account, tweet_id) ==
    LET normalized == normalize_account(account)
    IN  [b \in 1..Len(d) |->
            IF d[b].channel # channel_id THEN d[b]
            ELSE LET k == FirstIndex(d[b].entries, normalized)
                 IN  [d[b] EXCEPT !.entries =
                        [i \in 1..Len(d[b].entries) |->
                            IF i = k THEN [d[b].entries[i] EXCEPT !.last_tweet_id = tweet_id]
                            ELSE d[b].entries[i]]]]

HasChannel(d, channel_id) == \E b \in 1..Len(d) : d[b].channel = channel_id

\* self._data.setdefault(str(channel_id), [])
setdefault(d, channel_id) ==
    IF HasChannel(d, channel_id) THEN d
    ELSE Append(d, [channel |-> channel_id, entries |-> << >>])

ReplaceBucket(d, channel_id, entries) ==
    [b \in 1..Len(d) |->
        IF d[b].channel = channel_id THEN [d[b] EXCEPT !.entries = entries] ELSE d[b]]

\* faulty variant: the entry written by add_subscription has no watermark
AddedEntryWithoutWatermark(existing, account, interval, include_reposts, include_quotes, start_offset_minutes) ==
    [existing EXCEPT !.account = account,
                     !.interval_seconds = interval,
                     !.include_reposts = include_reposts,
                     !.include_quotes = include_quotes,
                     !.start_offset_minutes = start_offset_minutes,
                     !.last_tweet_id = NoneStr]

\* the entry add_subscription writes over an existing one (existing.update)
\* or appends; an appended entry has no interval_minutes and no thread_id
AddedEntry(existing, account, interval, include_reposts, include_quotes, start_offset_minutes) ==
    [existing EXCEPT !.account = account,
                     !.interval_seconds = interval,
                     !.include_reposts = include_reposts,
                     !.include_quotes = include_quotes,
                     !.start_offset_minutes = start_offset_minutes]

FreshEntry ==
    [account |-> EMPTY, interval_seconds |-> 0, interval_minutes |-> 0,
     include_reposts |-> FALSE, include_quotes |-> FALSE,
     start_offset_minutes |-> 0, thread_id |-> 0, last_tweet_id |-> NoneStr,
     include_keywords |-> << >>, exclude_keywords |-> << >>]

\* faulty variant: the interval floor is not enforced
add_subscription_no_floor(d, channel_id, account, interval_seconds, include_reposts, include_quotes, start_offset_minutes) ==
    LET normalized == normalize_account(account)
        interval == IF interval_seconds # NoneInt /\ interval_seconds # 0
                    THEN interval_seconds ELSE default_interval_seconds
    IN  IF normalized = ValueError THEN [raised |-> TRUE, saved |-> FALSE, data |-> d]
        ELSE IF start_offset_minutes < 0 \/ start_offset_minutes >= interval
        THEN [raised |-> TRUE, saved |-> FALSE, data |-> d]
        ELSE LET d1 == setdefault(d, channel_id)
                 bucket == Bucket(d1, channel_id)
                 k == FirstIndex(bucket, normalized)
                 entry == AddedEntry(IF k # 0 THEN bucket[k] ELSE FreshEntry, normalized, interval,
                                     include_reposts, include_quotes, start_offset_minutes)
             IN  [raised |-> FALSE, saved |-> TRUE,
                  data |-> ReplaceBucket(d1, channel_id,
                              IF k # 0 THEN [bucket EXCEPT ![k] = entry]
                              ELSE Append(bucket, entry))]

\* SubscriptionStore.add_subscription: whether it raises ValueError, and the
\* new _data
add_subscription(d, channel_id, account, interval_seconds, include_reposts, include_quotes, start_offset_minutes) ==
    LET normalized == normalize_account(account)
        interval == IF interval_seconds # NoneInt /\ interval_seconds # 0
                    THEN interval_seconds ELSE default_interval_seconds
    IN  IF normalized = ValueError THEN [raised |-> TRUE, saved |-> FALSE, data |-> d]
        ELSE IF interval < min_interval_seconds THEN [raised |-> TRUE, saved |-> FALSE, data |-> d]
        ELSE IF start_offset_minutes < 0 \/ start_offset_minutes >= interval
        THEN [raised |-> TRUE, saved |-> FALSE, data |-> d]
        ELSE LET d1 == setdefault(d, channel_id)
                 bucket == Bucket(d1, channel_id)
                 k == FirstIndex(bucket, normalized)
                 entry == AddedEntry(IF k # 0 THEN bucket[k] ELSE FreshEntry, normalized, interval,
                                     include_reposts, include_quotes, start_offset_minutes)
             IN  [raised |-> FALSE, saved |-> TRUE,
                  data |-> ReplaceBucket(d1, channel_id,
                              IF k # 0 THEN [bucket EXCEPT ![k] = entry]
                              ELSE Append(bucket, entry))]

\* SubscriptionStore.update_subscription; the bucket that setdefault makes
\* stays in _data when the call raises
update_subscription(d, channel_id, account, interval_seconds, include_reposts, include_quotes) ==
    LET normalized == normalize_account(account)
        d1 == setdefault(d, channel_id)
        bucket == Bucket(d1, channel_id)
        k == FirstIndex(bucket, normalized)
        interval == IF interval_seconds # NoneInt THEN interval_seconds
                    ELSE derive_interval_seconds(bucket[k])
        updated == [bucket[k] EXCEPT
                        !.interval_seconds = interval,
                        !.include_reposts = IF include_reposts # NoneBool THEN include_reposts[1] ELSE @,
                        !.include_quotes = IF include_quotes # NoneBool THEN include_quotes[1] ELSE @]
    IN  IF normalized = ValueError THEN [raised |-> TRUE, saved |-> FALSE, data |-> d]
        ELSE IF k = 0 THEN [raised |-> TRUE, saved |-> FALSE, data |-> d1]
        ELSE IF interval < min_interval_seconds THEN [raised |-> TRUE, saved |-> FALSE, data |-> d1]
        ELSE [raised |-> FALSE, saved |-> TRUE,
              data |-> ReplaceBucket(d1, channel_id, [bucket EXCEPT ![k] = updated])]

\* SubscriptionStore.remove_subscription; the file is written only when an
\* entry went away
remove_subscription(d, channel_id, account) ==
    LET normalized == normalize_account(account)
        bucket == Bucket(d, channel_id)
        kept == SelectSeq(bucket, LAMBDA e : e.account # normalized)
        saved == Len(kept) # Len(bucket)
    IN  IF normalized = ValueError THEN [raised |-> TRUE, saved |-> FALSE, data |-> d]
        ELSE IF kept = << >>
        THEN [raised |-> FALSE, saved |-> saved,
              data |-> SelectSeq(d, LAMBDA b : b.channel # channel_id)]
        ELSE [raised |-> FALSE, saved |-> saved, data |-> ReplaceBucket(d, channel_id, kept)]

(***************************************************************************)
(* app/rsshub_client.py                                                    *)
(***************************************************************************)
X_COM == << "h", "t", "t", "p", "s", ":", "/", "/", "x", ".", "c", "o", "m", "/" >>

\* re.sub(r"<[^>]+>", repl, value)
RECURSIVE SubTags(_, _)
SubTags(s, repl) ==
    IF s = EMPTY THEN EMPTY
    ELSE IF Head(s) = "<" /\ (\E j \in 3..Len(s) : s[j] = ">" /\ \A k \in 2..(j - 1) : s[k] # ">")
              /\ (Len(s) < 2 \/ s[2] # ">")
         THEN LET j == CHOOSE j \in 3..Len(s) : s[j] = ">" /\ \A k \in 2..(j - 1) : s[k] # ">"
              IN  repl \o SubTags(SubSeq(s, j + 1, Len(s)), repl)
         ELSE << Head(s) >> \o SubTags(Tail(s), repl)

\* RssHubClient._strip_html (the model's alphabet holds no character entity)
strip_html(value) == IF ~Truthy(value) THEN EMPTY ELSE Strip(SubTags(value, EMPTY))

\* faulty variant: no fallback to "<account>-<index>"
entry_id_no_fallback(raw, normalized, index) ==
    LET candidate == raw.guid
    IN  IF Truthy(candidate) THEN candidate ELSE raw.link

\* RssHubClient._entry_id, for a raw dict with the keys guid, description, link
entry_id(raw, normalized, index) ==
    LET candidate == raw.guid
    IN  IF Truthy(candidate) THEN candidate
        ELSE Or(raw.link, normalized \o << "-" >> \o IntStr(index))

\* the part of fetch_latest_posts after a successful response: feed is the
\* parsed entries of the response, newest first
fetch_latest_posts(account, max_results, feed) ==
    LET normalized == LStripAt(Strip(account))
        limit == Max(MINIMUM_RESULTS, Min(max_results, MAXIMUM_RESULTS))
        n == Min(Len(feed), limit)
    IN  [i \in 1..n |->
            LET entry == feed[i]
                text == Or(entry.description, Or(entry.summary, Or(entry.title, EMPTY)))
                raw == [guid |-> Or(entry.id, Or(entry.guid, entry.link)),
                        description |-> text,
                        link |-> entry.link]
            IN  [id |-> entry_id(raw, normalized, i - 1),
                 text |-> strip_html(text),
                 link |-> Or(raw.link, X_COM \o normalized)]]

(***************************************************************************)
(* app/poller.py: the filter                                               *)
(***************************************************************************)
\* the katakana word for "retweet" and the kanji word for "quote", one
\* model character per code point
RT_JA == << "U30EA", "U30C4", "U30A4", "U30FC", "U30C8" >>
RT_PREFIX == << "r", "t" >>
QUOTE_TWEET == << "q", "u", "o", "t", "e", " ", "t", "w", "e", "e", "t" >>
QUOTED_TWEET == << "q", "u", "o", "t", "e", "d", " ", "t", "w", "e", "e", "t" >>
QUOTE_JA == << "U5F15", "U7528" >>
RSSHUB_QUOTE == << "r", "s", "s", "h", "u", "b", "-", "q", "u", "o", "t", "e" >>

\* faulty variant: what follows the prefix "rt" is not looked at
is_repost_prefix_only(text) ==
    \E i \in 1..Len(SplitLines(text)) :
        LET candidate == Lower(Strip(SplitLines(text)[i]))
        IN  candidate # EMPTY /\ (StartsWith(candidate, RT_JA) \/ StartsWith(candidate, RT_PREFIX))

\* TweetPoller._is_repost
is_repost(text) ==
    \E i \in 1..Len(SplitLines(text)) :
        LET candidate == Lower(Strip(SplitLines(text)[i]))
        IN  /\ candidate # EMPTY
            /\ \/ StartsWith(candidate, RT_JA)
               \/ /\ StartsWith(candidate, RT_PREFIX)
                  /\ LET rest == SubSeq(candidate, 3, Len(candidate))
                     IN  rest = EMPTY \/ ~IsAlnum(rest[1])

\* TweetPoller._is_quote
is_quote(text, raw_text) ==
    LET lower == Lower(text)
        raw_lower == Lower(Or(raw_text, EMPTY))
    IN  \/ Contains(lower, QUOTE_TWEET)
        \/ Contains(lower, QUOTE_JA)
        \/ Contains(lower, QUOTED_TWEET)
        \/ Contains(raw_lower, RSSHUB_QUOTE)

\* TweetPoller._normalize_entry_text
normalize_entry_text(text, raw_text) ==
    LET p1 == IF Truthy(text) THEN normalize_keyword_text(text) ELSE EMPTY
        p2 == IF Truthy(raw_text) THEN normalize_keyword_text(SubTags(raw_text, << " " >>)) ELSE EMPTY
    IN  IF p1 # EMPTY /\ p2 # EMPTY THEN p1 \o << " " >> \o p2
        ELSE IF p1 # EMPTY THEN p1 ELSE p2

\* faulty variant: a matching include keyword admits the entry before the
\* exclude keywords are looked at
should_include_include_first(entry, subscription) ==
    LET text == entry.text
        raw_text == IF "raw_text" \in DOMAIN entry THEN entry.raw_text ELSE EMPTY
        combined == normalize_entry_text(text, raw_text)
        exclude_keywords == subscription.exclude_keywords
        include_keywords == subscription.include_keywords
    IN  IF ~subscription.include_reposts /\ is_repost(text) THEN FALSE
        ELSE IF ~subscription.include_quotes /\ is_quote(text, raw_text) THEN FALSE
        ELSE IF include_keywords # << >>
             THEN \E i \in 1..Len(include_keywords) : Contains(combined, include_keywords[i])
        ELSE ~\E i \in 1..Len(exclude_keywords) : Contains(combined, exclude_keywords[i])

\* TweetPoller._should_include; the feed client sets no raw_text, for which
\* entry.get("raw_text", "") is the empty string
should_include(entry, subscription) ==
    LET text == entry.text
        raw_text == IF "raw_text" \in DOMAIN entry THEN entry.raw_text ELSE EMPTY
        combined == normalize_entry_text(text, raw_text)
        exclude_keywords == subscription.exclude_keywords
        include_keywords == subscription.include_keywords
    IN  IF ~subscription.include_reposts /\ is_repost(text) THEN FALSE
        ELSE IF ~subscription.include_quotes /\ is_quote(text, raw_text) THEN FALSE
        ELSE IF exclude_keywords # << >>
                /\ \E i \in 1..Len(exclude_keywords) : Contains(combined, exclude_keywords[i])
             THEN FALSE
        ELSE IF include_keywords # << >>
                /\ ~\E i \in 1..Len(include_keywords) : Contains(combined, include_keywords[i])
             THEN FALSE
        ELSE TRUE


(***************************************************************************)
(* app/redis_store.py: the dedup store.  client is "self._client is not    *)
(* None", up is whether the backend answers (an operation on a backend     *)
(* that is down raises inside the store, which catches it), links is the   *)
(* set kept under x2discord:sent_links:<channel_id>.                       *)
(***************************************************************************)
\* faulty variant: the link is stored although the backend is unreachable
add_link_despite_outage(client, up, links, link, bound) == { links \cup { link } }

\* faulty variant: the set is never trimmed
add_link_no_eviction(client, up, links, link, bound) ==
    IF ~client \/ ~up THEN { links } ELSE { links \cup { link } }

\* RedisLinkStore.has_link
has_link(client, up, links, link) ==
    IF ~client THEN FALSE
    ELSE IF ~up THEN FALSE
    ELSE link \in links

\* RedisLinkStore.add_link: the sets the call may leave (srandmember picks
\* the victims when the set is over its bound)
add_link(client, up, links, link, bound) ==
    IF ~client \/ ~up THEN { links }
    ELSE LET added == links \cup { link }
             size == Cardinality(added)
         IN  IF size > bound
             THEN { added \ members : members \in { m \in SUBSET added : Cardinality(m) = size - bound } }
             ELSE { added }

(***************************************************************************)
(* The engine's state.                                                     *)
(***************************************************************************)
VARIABLES
    clock,              \* time.monotonic()
    stop_event,         \* TweetPoller._stop_event
    pc,                 \* where TweetPoller.start is
    subscriptions,      \* the list start() got from the store for this tick
    idx,                \* the next subscription of the list to examine
    now,                \* the tick's now
    state,              \* TweetPoller._state
    last_seen,          \* TweetPoller._last_seen
    account_last_call,  \* TweetPoller._account_last_call
    data,               \* SubscriptionStore._data, as saved to the file
    redis_mode,         \* "no_store" (redis_store is None, or its connect() failed
                        \* and is_connected is false) or "connected"
    redis_links,        \* channel -> the set of keys stored for it
    polls,              \* history: the number of fetch attempts so far
    ticks,              \* history: the number of tick iterations so far
    sent_ids,           \* history: <<channel, id>> -> completed sends
    sent_links,         \* history: <<channel, link>> -> completed sends
    attempts,           \* history: key -> the last fetch attempt of the key
    lastPoll,           \* history: what the last poll saw and did
    dedup_outage,       \* history: the dedup store was unreachable at some time
    watermark_missed,   \* history: some steady-state fetch did not hold the watermark entry
    before_restart,     \* history: whether the process was restarted, and what it had sent
    filter_call,        \* the last call of _should_include made on its own, and its result
    store_call,         \* the last add, update or remove call on the store, and whether it raised
    pure_call,          \* the last call of a function made on its own: its name, argument and result
    in_progress,        \* the _poll_subscription coroutines that were started and have not returned
    lifecycle           \* history: key -> its last removal or re-add by a command, and the polls begun since

vars == << clock, stop_event, pc, subscriptions, idx, now, state, last_seen,
           account_last_call, data, redis_mode, redis_links, polls,
           ticks, sent_ids, sent_links, attempts, lastPoll, dedup_outage, watermark_missed, before_restart, filter_call, store_call, pure_call, in_progress, lifecycle >>

engine == << state, last_seen, account_last_call >>
stores == << data, redis_links >>
history == << sent_ids, sent_links, attempts, lastPoll >>

(***************************************************************************)
(* The inputs the model draws from.                                        *)
(***************************************************************************)
FOO == << "f", "o", "o" >>
P1 == << "p", "1" >>
P2 == << "p", "2" >>
P3 == << "p", "3" >>
U1 == << "u", "1" >>
U2 == << "u", "2" >>
U3 == << "u", "3" >>

RawItem(id, link, description) ==
    [id |-> id, guid |-> NoneStr, link |-> link,
     description |-> description, summary |-> NoneStr, title |-> NoneStr]

\* a plain post, a repost, a post with markup carrying the keyword "x", and
\* an item that has neither guid nor link
Item1 == RawItem(P1, U1, << "h", "i" >>)
Item2 == RawItem(P2, U2, << "R", "T", " ", "@", "a" >>)
Item3 == RawItem(P3, U3, << "<", "b", ">", "h", "i", "<", "/", "b", ">", " ", "x" >>)
Item4 == RawItem(NoneStr, NoneStr, << "o", "h" >>)
Items == { Item1, Item2, Item3, Item4 }

\* the feeds the upstream may answer with, newest first: none, the first
\* post, posts arriving on top of it, the same item twice, the watermark post
\* in the middle, items whose id and link are the client's fallbacks
Feeds ==
    { << >>, << Item1 >>, << Item2, Item1 >>, << Item3, Item2, Item1 >>,
      << Item3, Item2 >>, << Item3, Item3, Item1 >>, << Item3, Item1, Item2 >>,
      << Item4, Item4 >> }
QuietFeeds == { << >>, << Item1 >> }
MaxFeedLen == 3

StoredEntry(account, interval, reposts, excl, last) ==
    [account |-> account, interval_seconds |-> interval, interval_minutes |-> 0,
     include_reposts |-> reposts, include_quotes |-> FALSE,
     start_offset_minutes |-> 0, thread_id |-> 0, last_tweet_id |-> last,
     include_keywords |-> << >>, exclude_keywords |-> excl]

\* the subscription file found at start-up: empty, two channels watching
\* the same account, the second already holding a watermark, or that second
\* channel alone
EmptyStore == << >>
TwoChannels ==
    << [channel |-> 1, entries |-> << StoredEntry(FOO, 60, FALSE, << << "x" >> >>, NoneStr) >>],
       [channel |-> 2, entries |-> << StoredEntry(FOO, 30, TRUE, << >>, P1) >>] >>
WatermarkedChannel ==
    << [channel |-> 2, entries |-> << StoredEntry(FOO, 30, TRUE, << >>, P1) >>] >>
InitialStores == { EmptyStore, TwoChannels, WatermarkedChannel }
\* one channel watching the account every interval seconds
OneChannel(interval) ==
    << [channel |-> 1, entries |-> << StoredEntry(FOO, interval, FALSE, << >>, NoneStr) >>] >>
Channels == { 1, 2 }

\* the Retry-After header of a 429 response: absent, a number of seconds, a
\* date, a digit that is not a decimal digit
RetryAfterHeaders == { NoneStr, << "9", "0" >>, << "5" >>, << "W", "e", "d" >>, << "U00B2" >> }
FetchDurations == { 2 }
ErrorKinds == { "429", "403", "http", "network" }

(***************************************************************************)
(* app/poller.py: the engine                                               *)
(***************************************************************************)
Key(subscription) == << subscription.channel_id, subscription.account >>

NewState == [next_run |-> 0, last_id |-> NoneStr, backoff_multiplier |-> 1]

NoPoll ==
    [kind |-> "none", key |-> << 0, EMPTY >>, first |-> FALSE, seen_id |-> NoneStr,
     pre |-> NewState, now |-> 0, request_time |-> 0, t_after |-> 0,
     prev_call |-> NoTime, prev_attempt |-> [time |-> NoTime, kind |-> "none", interval |-> 0],
     interval |-> 0, retry_after |-> NoneStr, posts |-> << >>, new_posts |-> << >>,
     sends |-> << >>, raised |-> FALSE, dedup |-> FALSE]

Get(f, k, default) == IF k \in DOMAIN f THEN f[k] ELSE default
Put(f, k, v) == [x \in DOMAIN f \cup { k } |-> IF x = k THEN v ELSE f[x]]

dedup_available == redis_mode = "connected"

\* lines 58-87 of _maybe_poll_subscription: setdefault, then the seeding of
\* last_id from the Subscription or from the store
Seeded(subscription) ==
    LET s == Get(state, Key(subscription), NewState)
    IN  IF s.last_id # NoneStr THEN s
        ELSE IF Truthy(subscription.last_tweet_id)
             THEN [s EXCEPT !.last_id = subscription.last_tweet_id]
        ELSE LET persisted == get_last_tweet_id(data, subscription.channel_id, subscription.account)
             IN  IF Truthy(persisted) THEN [s EXCEPT !.last_id = persisted] ELSE s

SeededLastSeen(subscription) ==
    LET s == Get(state, Key(subscription), NewState)
    IN  IF s.last_id = NoneStr /\ Seeded(subscription).last_id # NoneStr
        THEN Put(last_seen, subscription.account, Seeded(subscription).last_id)
        ELSE last_seen

(***************************************************************************)
(* Faulty variants of the engine's operators.  Each property below must    *)
(* fail when the operator it depends on is replaced by its variant.        *)
(***************************************************************************)
\* no spacing between the fetches of an account
ensure_account_interval_off(last_call, t) == TRUE

\* the next run is due at once
schedule_next_at_once(t, interval_seconds) == t

\* the exponential branch forgets the multiplier
compute_backoff_flat(retry_after, interval_seconds, multiplier) ==
    IF Truthy(retry_after) /\ IsDigitStr(retry_after)
    THEN Max(ParseInt(retry_after), interval_seconds)
    ELSE Max(interval_seconds, BACKOFF_BASE_FLOOR)

\* the Retry-After branch scales with the multiplier
compute_backoff_scaled(retry_after, interval_seconds, multiplier) ==
    IF Truthy(retry_after) /\ IsDigitStr(retry_after)
    THEN Max(ParseInt(retry_after), interval_seconds) * multiplier
    ELSE Max(interval_seconds, BACKOFF_BASE_FLOOR) * multiplier

\* the multiplier doubles without a cap
next_multiplier_uncapped(multiplier) == multiplier * 2

\* a denied subscription keeps its next_run
rate_gate_delay_keeps(next_run, last_call) == next_run
\* lines 223-224 without the max
rate_gate_delay_no_max(next_run, last_call) == last_call + ACCOUNT_MIN_INTERVAL_SECONDS

\* only the send key is recorded after a send
record_keys_send_key_only(entry) == << Or(entry.link, entry.id) >>

\* a success keeps the multiplier
handle_success_no_reset(s, t, interval_seconds) ==
    [s EXCEPT !.next_run = t + interval_seconds]

\* a failed fetch forgets the watermark
handle_error_forgets(kind, s, t, interval_seconds, retry_after) ==
    [s EXCEPT !.next_run = t + interval_seconds, !.last_id = NoneStr]

\* every poll is taken for a steady-state poll
is_first_poll_never(seen_id) == FALSE

\* last_id moves only on the first poll and after sends
watermark_advances_on_send(first, new_posts, raised) ==
    first \/ (new_posts # << >> /\ ~raised)

\* entries are sent in fetch order, newest first
send_order_newest_first(new_posts) == new_posts

\* TweetPoller._ensure_account_interval: TRUE when the fetch may go ahead
ensure_account_interval(last_call, t) ==
    ~(TruthyNum(last_call) /\ t < last_call + ACCOUNT_MIN_INTERVAL_SECONDS)

\* lines 223-224: the next_run of a subscription the rate gate denies
rate_gate_delay(next_run, last_call) ==
    Max(next_run, last_call + ACCOUNT_MIN_INTERVAL_SECONDS)

\* TweetPoller._schedule_next
schedule_next(t, interval_seconds) == t + interval_seconds

\* TweetPoller._compute_backoff
compute_backoff(retry_after, interval_seconds, multiplier) ==
    IF Truthy(retry_after) /\ IsDigitStr(retry_after)
    THEN Max(ParseInt(retry_after), interval_seconds)
    ELSE Max(interval_seconds, BACKOFF_BASE_FLOOR) * multiplier

\* _compute_backoff raises: int() rejects what isdigit() accepted (line 233)
compute_backoff_raises(retry_after) ==
    Truthy(retry_after) /\ IsDigitStr(retry_after) /\ IntRaises(retry_after)

\* line 210: the multiplier after a 429
next_multiplier(multiplier) == Min(multiplier * 2, BACKOFF_MULTIPLIER_CAP)

\* TweetPoller._handle_http_error and the generic except branch: the state
\* after a failed fetch, t being time.monotonic() in the handler
handle_error(kind, s, t, interval_seconds, retry_after) ==
    CASE kind = "429" ->
            [s EXCEPT !.next_run = Max(s.next_run, t + compute_backoff(retry_after, interval_seconds, s.backoff_multiplier)),
                      !.backoff_multiplier = next_multiplier(s.backoff_multiplier)]
      [] kind = "403" ->
            [s EXCEPT !.next_run = Max(s.next_run, t + Max(interval_seconds, FORBIDDEN_MIN_BACKOFF))]
      [] OTHER -> [s EXCEPT !.next_run = schedule_next(t, interval_seconds)]

\* lines 115-116: the state after a successful fetch
handle_success(s, t, interval_seconds) ==
    [s EXCEPT !.next_run = schedule_next(t, interval_seconds), !.backoff_multiplier = 1]

\* line 120: the poll is the first one of the subscription
is_first_poll(seen_id) == ~Truthy(seen_id)

\* lines 121, 159 and 187: the poll of a non-empty result sets last_id on the
\* first poll, when new_posts is empty, and after the sends when none raised
watermark_advances(first, new_posts, raised) ==
    first \/ new_posts = << >> \/ ~raised

\* TweetPoller._is_already_sent; up: the backend answers during this poll
is_already_sent(channel_id, id, link, up) ==
    IF redis_mode # "connected" THEN FALSE
    ELSE \/ Truthy(id) /\ has_link(TRUE, up, redis_links[channel_id], id)
         \/ Truthy(link) /\ has_link(TRUE, up, redis_links[channel_id], link)

\* the index of the watermark entry in posts, or Len(posts) + 1 (line 136)
WatermarkIndex(posts, seen_id) ==
    IF \E i \in 1..Len(posts) : posts[i].id = seen_id
    THEN CHOOSE i \in 1..Len(posts) : posts[i].id = seen_id /\ \A j \in 1..(i - 1) : posts[j].id # seen_id
    ELSE Len(posts) + 1

\* lines 133-157: the indexes (into posts, in fetch order) of new_posts
collect_new_posts(posts, seen_id, subscription, up) ==
    LET stop == WatermarkIndex(posts, seen_id)
        keep(i) == /\ i < stop
                   /\ ~is_already_sent(subscription.channel_id, posts[i].id, posts[i].link, up)
                   /\ Truthy(Or(posts[i].link, posts[i].id))
                   /\ should_include(posts[i], subscription)
    IN  SelectSeq([i \in 1..Len(posts) |-> i], keep)

\* line 171: the order in which new_posts are sent
send_order(new_posts) == Reverse(new_posts)

\* lines 180-184: the keys recorded after one successful send
record_keys(entry) ==
    LET send_key == Or(entry.link, entry.id)
    IN  << send_key >>
        \o (IF Truthy(entry.id) /\ entry.id # send_key THEN << entry.id >> ELSE << >>)
        \o (IF Truthy(entry.link) /\ entry.link # send_key THEN << entry.link >> ELSE << >>)

\* TweetPoller._record_sent_link for each key in turn: the sets that may result
RECURSIVE record_sent_links(_, _, _)
record_sent_links(links, keys, up) ==
    IF keys = << >> THEN { links }
    ELSE UNION { record_sent_links(l, Tail(keys), up) :
                    l \in add_link(redis_mode = "connected", up, links, Head(keys), max_links_per_channel) }

RECURSIVE KeysOf(_, _)
KeysOf(posts, order) ==
    IF order = << >> THEN << >>
    ELSE record_keys(posts[Head(order)]) \o KeysOf(posts, Tail(order))

Count(seq, x) == Cardinality({ i \in 1..Len(seq) : seq[i] = x })

Tally(counts, channel_id, seq) ==
    [k \in DOMAIN counts \cup { << channel_id, seq[i] >> : i \in 1..Len(seq) } |->
        Get(counts, k, 0) + (IF k[1] = channel_id THEN Count(seq, k[2]) ELSE 0)]


(***************************************************************************)
(* Initial state: the engine as constructed, the store as loaded.          *)
(***************************************************************************)
NoRestart == [happened |-> FALSE, sent_ids |-> << >>]
NoStoreCall == [op |-> "none", raised |-> FALSE, saved |-> FALSE, channel_id |-> 0, account |-> EMPTY,
                interval_seconds |-> NoneInt, calls |-> 0]
NoPureCall == [fn |-> "none", arg |-> << >>, result |-> << >>]
NoFilterCall == [called |-> FALSE, entry |-> [text |-> EMPTY, raw_text |-> EMPTY],
                 subscription |-> << >>, result |-> FALSE]

InitWith(found_stores, modes) ==
    /\ clock = StartTime
    /\ stop_event = FALSE
    /\ pc = "loop"
    /\ subscriptions = << >>
    /\ idx = 0
    /\ now = 0
    /\ state = << >>
    /\ last_seen = << >>
    /\ account_last_call = << >>
    /\ data \in found_stores
    /\ redis_mode \in modes
    /\ redis_links = [c \in Channels |-> { }]
    /\ polls = 0
    /\ ticks = 0
    /\ sent_ids = << >>
    /\ sent_links = << >>
    /\ attempts = << >>
    /\ lastPoll = NoPoll
    /\ dedup_outage = (redis_mode # "connected")
    /\ watermark_missed = FALSE
    /\ before_restart = NoRestart
    /\ filter_call = NoFilterCall
    /\ store_call = NoStoreCall
    /\ pure_call = NoPureCall
    /\ in_progress = { }
    /\ lifecycle = << >>

Init == InitWith(InitialStores, { "no_store", "connected" })

(***************************************************************************)
(* TweetPoller.start: the head of the loop (lines 43-48).                  *)
(***************************************************************************)
Tick ==
    /\ pc = "loop"
    /\ ticks' = ticks + 1
    /\ IF stop_event
       THEN pc' = "done" /\ UNCHANGED << subscriptions, idx, now >>
       ELSE LET subs == get_subscriptions(data)
            IN  IF subs = << >>
                THEN pc' = "sleep5" /\ UNCHANGED << subscriptions, idx, now >>
                ELSE pc' = "tick" /\ subscriptions' = subs /\ idx' = 1 /\ now' = clock
    /\ UNCHANGED << clock, stop_event, engine, stores, redis_mode, polls, history,
                    dedup_outage, watermark_missed, before_restart, filter_call, store_call, pure_call, in_progress, lifecycle >>

\* the times at which a sleep of at least d seconds may end: as soon as it
\* can, or when some subscription or account becomes eligible
WakeTimes(d) ==
    { clock + d }
    \cup { state[k].next_run : k \in DOMAIN state }
    \cup { account_last_call[a] + ACCOUNT_MIN_INTERVAL_SECONDS : a \in DOMAIN account_last_call }

\* asyncio.sleep(5) of line 46 and asyncio.sleep(1) of line 51
Sleep ==
    /\ pc \in { "sleep1", "sleep5" }
    /\ \E t \in WakeTimes(IF pc = "sleep5" THEN 5 ELSE 1) :
          /\ t >= clock + (IF pc = "sleep5" THEN 5 ELSE 1)
          /\ t <= MaxTime
          /\ clock' = t
    /\ pc' = "loop"
    /\ UNCHANGED << stop_event, subscriptions, idx, now, engine, stores, redis_mode,
                    polls, ticks, history, dedup_outage, watermark_missed, before_restart, filter_call, store_call, pure_call, in_progress, lifecycle >>

\* TweetPoller.stop, called while start() is suspended in a sleep or inside
\* the tick in flight: it sets the flag and returns
Stop ==
    /\ pc \in { "tick", "sleep1", "sleep5" }
    /\ ~stop_event
    /\ stop_event' = TRUE
    /\ UNCHANGED << clock, pc, subscriptions, idx, now, engine, stores, redis_mode,
                    polls, ticks, history, dedup_outage, watermark_missed, before_restart, filter_call, store_call, pure_call, in_progress, lifecycle >>

(***************************************************************************)
(* TweetPoller._maybe_poll_subscription for subscriptions[idx].            *)
(***************************************************************************)
Current == subscriptions[idx]
LastCall(subscription) == Get(account_last_call, subscription.account, NoTime)
NoAttempt == [time |-> NoTime, kind |-> "none", interval |-> 0]

\* lines 88-91: the fetch goes ahead
Due(subscription) ==
    /\ ensure_account_interval(LastCall(subscription), now)
    /\ ~(now < Seeded(subscription).next_run)

Advance ==
    /\ idx' = idx + 1
    /\ pc' = IF idx = Len(subscriptions) THEN "sleep1" ELSE "tick"

PollRecord(kind, subscription, s0, d, retry_after, posts, new_posts, sends, raised, up) ==
    [kind |-> kind, key |-> Key(subscription),
     first |-> is_first_poll(s0.last_id),
     seen_id |-> s0.last_id,
     pre |-> s0, now |-> now, request_time |-> clock,
     t_after |-> clock + d, prev_call |-> LastCall(subscription),
     prev_attempt |-> Get(attempts, Key(subscription), NoAttempt),
     interval |-> subscription.interval_seconds, retry_after |-> retry_after,
     posts |-> posts, new_posts |-> new_posts, sends |-> sends, raised |-> raised,
     dedup |-> (redis_mode = "connected" /\ up)]

\* the rate gate denies the subscription, or it is not due yet
MaybePollSkip ==
    /\ pc = "tick"
    /\ ~Due(Current)
    /\ LET s == Seeded(Current)
           last_call == LastCall(Current)
       IN  state' = Put(state, Key(Current),
                IF ensure_account_interval(last_call, now) THEN s
                ELSE [s EXCEPT !.next_run = rate_gate_delay(s.next_run, last_call)])
    /\ last_seen' = SeededLastSeen(Current)
    /\ Advance
    /\ UNCHANGED << clock, stop_event, subscriptions, now, account_last_call, stores,
                    redis_mode, polls, ticks, history, dedup_outage, watermark_missed, before_restart, filter_call, store_call, pure_call, in_progress, lifecycle >>

\* _poll_subscription when the fetch raises (lines 108-114), d seconds after
\* the request was issued.  A ValueError out of _compute_backoff leaves the
\* handler and ends start().
PollError(kind, retry_after, d) ==
    /\ pc = "tick"
    /\ Due(Current)
    /\ clock + d <= MaxTime
    /\ \E sub \in { Current } :
       \E s0 \in { Seeded(sub) } :
       \E raised \in { kind = "429" /\ compute_backoff_raises(retry_after) } :
          /\ state' = Put(state, Key(sub),
                  IF raised THEN s0
                  ELSE handle_error(kind, s0, clock + d, sub.interval_seconds, retry_after))
          /\ lastPoll' = PollRecord(kind, sub, s0, d, retry_after, << >>, << >>, << >>, raised, TRUE)
          /\ last_seen' = SeededLastSeen(sub)
          /\ attempts' = Put(attempts, Key(sub),
                  [time |-> clock, kind |-> kind, interval |-> sub.interval_seconds])
          /\ account_last_call' = Put(account_last_call, sub.account, clock)
          /\ IF raised
             THEN pc' = "crashed" /\ idx' = idx
             ELSE Advance
    /\ polls' = polls + 1
    /\ clock' = clock + d
    /\ UNCHANGED << stop_event, subscriptions, now, stores, redis_mode, ticks,
                    sent_ids, sent_links, dedup_outage, watermark_missed, before_restart, filter_call, store_call, pure_call, in_progress, lifecycle >>

\* the fetch of feed for the current subscription is a steady-state fetch
\* whose result does not hold the entry whose id is the watermark
misses_watermark(feed) ==
    LET s0 == Seeded(Current)
        posts == fetch_latest_posts(Current.account, STEADY_MAX_RESULTS, feed)
    IN  /\ ~is_first_poll(s0.last_id)
        /\ WatermarkIndex(posts, s0.last_id) > Len(posts)

\* _poll_subscription when the fetch returns feed after d seconds (lines
\* 115-197).  fail_at > 0 makes the fail_at-th send_message raise, which ends
\* start() with the exception (CancelledError when cancelled); up tells
\* whether the dedup backend answers during the poll.
\* Each local of the method is bound once, by a quantifier over a singleton.
Poll(feed, fail_at, d, up, cancelled) ==
    /\ pc = "tick"
    /\ Due(Current)
    /\ clock + d <= MaxTime
    /\ redis_mode # "connected" => up
    /\ cancelled => fail_at > 0
    /\ \E sub \in { Current } :
       \E s0 \in { Seeded(sub) } :
       \E posts \in { fetch_latest_posts(sub.account,
                          IF ~Truthy(s0.last_id) THEN FIRST_POLL_MAX_RESULTS ELSE STEADY_MAX_RESULTS,
                          feed) } :
       \E first \in { is_first_poll(s0.last_id) } :
       \E new_posts \in { IF posts # << >> /\ ~first
                          THEN collect_new_posts(posts, s0.last_id, sub, up)
                          ELSE << >> } :
       \E order \in { send_order(new_posts) } :
          /\ fail_at <= Len(order)
          /\ \E raised \in { fail_at > 0 } :
             \E sends \in { IF raised THEN SubSeq(order, 1, fail_at - 1) ELSE order } :
             \E advanced \in { posts # << >> /\ watermark_advances(first, new_posts, raised) } :
             \E s1 \in { handle_success(s0, clock + d, sub.interval_seconds) } :
             \E seen \in { SeededLastSeen(sub) } :
                /\ state' = Put(state, Key(sub),
                        IF advanced THEN [s1 EXCEPT !.last_id = posts[1].id] ELSE s1)
                /\ last_seen' = IF advanced THEN Put(seen, sub.account, posts[1].id) ELSE seen
                /\ data' = IF advanced
                           THEN set_last_tweet_id(data, sub.channel_id, sub.account, posts[1].id)
                           ELSE data
                /\ \E links \in record_sent_links(redis_links[sub.channel_id], KeysOf(posts, sends), up) :
                      redis_links' = [redis_links EXCEPT ![sub.channel_id] = links]
                /\ sent_ids' = Tally(sent_ids, sub.channel_id, [i \in 1..Len(sends) |-> posts[sends[i]].id])
                /\ sent_links' = Tally(sent_links, sub.channel_id, [i \in 1..Len(sends) |-> posts[sends[i]].link])
                /\ lastPoll' = PollRecord(IF cancelled THEN "cancelled" ELSE "ok", sub, s0, d, NoneStr, posts, new_posts, sends, raised, up)
                /\ attempts' = Put(attempts, Key(sub),
                        [time |-> clock, kind |-> "ok", interval |-> sub.interval_seconds])
                /\ account_last_call' = Put(account_last_call, sub.account, clock)
                /\ IF raised
                   THEN pc' = (IF cancelled THEN "cancelled" ELSE "crashed") /\ idx' = idx
                   ELSE Advance
    /\ polls' = polls + 1
    /\ clock' = clock + d
    /\ dedup_outage' = (dedup_outage \/ ~up)
    /\ watermark_missed' = (watermark_missed \/ misses_watermark(feed))
    /\ stop_event' = (stop_event \/ cancelled)
    /\ UNCHANGED << subscriptions, now, redis_mode, ticks, before_restart, filter_call, store_call, pure_call, in_progress, lifecycle >>

PollOk(feed, fail_at, d, up) == Poll(feed, fail_at, d, up, FALSE)

(***************************************************************************)
(* app/main.py shutdown_event (lines 45-52): stop() and task.cancel() run  *)
(* without yielding to the poller, which then receives CancelledError at   *)
(* the await it is suspended in.                                           *)
(***************************************************************************)
\* the poller is suspended in one of its sleeps
Shutdown ==
    /\ pc \in { "sleep1", "sleep5" }
    /\ ~stop_event
    /\ stop_event' = TRUE
    /\ pc' = "cancelled"
    /\ UNCHANGED << clock, subscriptions, idx, now, engine, stores, redis_mode,
                    polls, ticks, history, dedup_outage, watermark_missed, before_restart, filter_call, store_call, pure_call, in_progress, lifecycle >>

\* the poller is suspended in the cancel_at-th send_message of a poll
ShutdownDuringPoll(feed, cancel_at, d, up) ==
    /\ ~stop_event
    /\ Poll(feed, cancel_at, d, up, TRUE)

(***************************************************************************)
(* The engine over the full range of upstream answers, for a few polls.    *)
(***************************************************************************)
Next ==
    \/ ticks < MaxTicks /\ Tick
    \/ Sleep
    \/ Stop
    \/ MaybePollSkip
    \/ \E kind \in ErrorKinds, retry_after \in RetryAfterHeaders, d \in FetchDurations :
          /\ polls < MaxPolls
          /\ kind # "429" => retry_after = NoneStr
          /\ PollError(kind, retry_after, d)
    \/ \E feed \in Feeds, fail_at \in 0..MaxFeedLen, d \in FetchDurations, up \in BOOLEAN :
          /\ polls < MaxPolls
          /\ PollOk(feed, fail_at, d, up)

Spec == Init /\ [][Next]_vars


(***************************************************************************)
(* The engine over a longer run of polls of a feed that rarely changes,    *)
(* so that consecutive rate-limit responses drive the multiplier up to its *)
(* cap.                                                                    *)
(***************************************************************************)
InitBackoff == InitWith({ OneChannel(30), OneChannel(90) }, { "no_store" })

NextBackoff ==
    \/ ticks < MaxBackoffTicks /\ Tick
    \/ Sleep
    \/ MaybePollSkip
    \/ \E retry_after \in RetryAfterHeaders, d \in FetchDurations :
          /\ polls < MaxBackoffPolls
          /\ PollError("429", retry_after, d)
    \/ \E feed \in QuietFeeds, d \in FetchDurations :
          /\ polls < MaxBackoffPolls
          /\ PollOk(feed, 0, d, TRUE)

SpecBackoff == InitBackoff /\ [][NextBackoff]_vars


(***************************************************************************)
(* The engine across one restart of the process: main.py builds a new      *)
(* TweetPoller (lines 17-28) over the subscription file and the Redis sets *)
(* the old process left.                                                   *)
(***************************************************************************)
Restart ==
    /\ ~before_restart.happened
    /\ pc \in { "sleep1", "sleep5", "done", "crashed", "cancelled" }
    /\ before_restart' = [happened |-> TRUE, sent_ids |-> sent_ids]
    /\ stop_event' = FALSE
    /\ pc' = "loop"
    /\ subscriptions' = << >>
    /\ idx' = 0
    /\ now' = 0
    /\ state' = << >>
    /\ last_seen' = << >>
    /\ account_last_call' = << >>
    /\ attempts' = << >>
    /\ lastPoll' = NoPoll
    /\ UNCHANGED << clock, stores, redis_mode, polls, ticks, sent_ids, sent_links,
                    dedup_outage, watermark_missed, filter_call, store_call, pure_call, in_progress, lifecycle >>

RestartFeeds == { << Item3, Item2, Item1 >>, << Item3, Item2 >>, << Item2, Item1 >> }

InitRestart == InitWith({ TwoChannels, WatermarkedChannel }, { "no_store", "connected" })

NextRestart ==
    \/ ticks < MaxTicks /\ Tick
    \/ Sleep
    \/ MaybePollSkip
    \/ \E feed \in RestartFeeds, fail_at \in 0..MaxFeedLen, d \in FetchDurations, up \in BOOLEAN :
          /\ polls < MaxPolls
          /\ PollOk(feed, fail_at, d, up)
    \/ Restart

SpecRestart == InitRestart /\ [][NextRestart]_vars


(***************************************************************************)
(* TweetPoller._should_include on its own, over entries with text and      *)
(* raw_text and subscriptions with every combination of flags and keyword  *)
(* lists.                                                                  *)
(***************************************************************************)
FilterTexts ==
    { << "h", "i" >>,
      << "R", "T", " ", "@", "a" >>,
      << "h", "i", " ", "x" >>,
      << "A", "b" >>,
      << "a", " ", "q", "u", "o", "t", "e", " ", "t", "w", "e", "e", "t" >> }
FilterRawTexts ==
    { EMPTY,
      << "<", "b", ">", "x", "<", "/", "b", ">" >>,
      << "<", "r", "s", "s", "h", "u", "b", "-", "q", "u", "o", "t", "e", ">", "a", "b" >> }
FilterKeywordLists == { << >>, << << "x" >> >>, << << "a", "b" >>, << "h", "i" >> >> }
FilterSubscription(reposts, quotes, include, exclude) ==
    Subscription(1, [account |-> FOO, interval_seconds |-> 60, interval_minutes |-> 0,
                     include_reposts |-> reposts, include_quotes |-> quotes,
                     start_offset_minutes |-> 0, thread_id |-> 0, last_tweet_id |-> NoneStr,
                     include_keywords |-> include, exclude_keywords |-> exclude])

\* one call _should_include(entry, subscription)
ShouldInclude(text, raw_text, reposts, quotes, include, exclude) ==
    /\ \E entry \in { [text |-> text, raw_text |-> raw_text] },
          subscription \in { FilterSubscription(reposts, quotes, include, exclude) } :
             filter_call' = [called |-> TRUE, entry |-> entry, subscription |-> subscription,
                             result |-> should_include(entry, subscription)]
    /\ UNCHANGED << clock, stop_event, pc, subscriptions, idx, now, engine, stores,
                    redis_mode, polls, ticks, history, dedup_outage, watermark_missed,
                    before_restart, store_call, pure_call, in_progress, lifecycle >>

InitFilter == InitWith({ EmptyStore }, { "no_store" })

NextFilter ==
    \E text \in FilterTexts, raw_text \in FilterRawTexts, reposts \in BOOLEAN, quotes \in BOOLEAN,
       include \in FilterKeywordLists, exclude \in FilterKeywordLists :
          ShouldInclude(text, raw_text, reposts, quotes, include, exclude)

SpecFilter == InitFilter /\ [][NextFilter]_vars


(***************************************************************************)
(* The subscription store on its own: the add, update and remove calls the *)
(* commands of the bot make, from an empty subscription file.              *)
(***************************************************************************)
StoreChannels == { 1, 2 }
StoreAccounts ==
    { FOO,
      << "f", "O", "o" >>,
      << "@", "f", "o", "o" >>,
      X_COM \o FOO \o << "/" >>,
      << " " >> }
AddIntervals == { NoneInt, 59, 120 }
UpdateIntervals == { NoneInt, 0, 120 }
StartOffsets == { 0, 60 }
OptionalBools == { NoneBool, << TRUE >> }

\* the effect of a call on the store, and its record
StoreEffect(op, r, channel_id, account, interval_seconds) ==
    /\ store_call.calls < MaxStoreCalls
    /\ data' = r.data
    /\ store_call' = [op |-> op, raised |-> r.raised, saved |-> r.saved, channel_id |-> channel_id,
                      account |-> account, interval_seconds |-> interval_seconds,
                      calls |-> store_call.calls + 1]
    /\ UNCHANGED << clock, stop_event, pc, subscriptions, idx, now, engine, redis_links,
                    redis_mode, polls, ticks, history, dedup_outage, watermark_missed,
                    before_restart, filter_call, pure_call, in_progress >>

StoreCall(op, r, channel_id, account, interval_seconds) ==
    /\ StoreEffect(op, r, channel_id, account, interval_seconds)
    /\ UNCHANGED lifecycle

AddSubscription(channel_id, account, interval_seconds, include_reposts, start_offset_minutes) ==
    /\ \E r \in { add_subscription(data, channel_id, account, interval_seconds,
                                   include_reposts, FALSE, start_offset_minutes) } :
          StoreCall("add", r, channel_id, account, interval_seconds)

UpdateSubscription(channel_id, account, interval_seconds, include_reposts, include_quotes) ==
    /\ \E r \in { update_subscription(data, channel_id, account, interval_seconds,
                                      include_reposts, include_quotes) } :
          StoreCall("update", r, channel_id, account, interval_seconds)

RemoveSubscription(channel_id, account) ==
    /\ \E r \in { remove_subscription(data, channel_id, account) } :
          StoreCall("remove", r, channel_id, account, NoneInt)

InitStore == InitWith({ EmptyStore }, { "no_store" })

NextStore ==
    \/ \E channel_id \in StoreChannels, account \in StoreAccounts, interval_seconds \in AddIntervals,
          include_reposts \in BOOLEAN, start_offset_minutes \in StartOffsets :
             AddSubscription(channel_id, account, interval_seconds, include_reposts,
                             start_offset_minutes)
    \/ \E channel_id \in StoreChannels, account \in StoreAccounts,
          interval_seconds \in UpdateIntervals, include_reposts \in OptionalBools,
          include_quotes \in OptionalBools :
             UpdateSubscription(channel_id, account, interval_seconds, include_reposts,
                                include_quotes)
    \/ \E channel_id \in StoreChannels, account \in StoreAccounts :
          RemoveSubscription(channel_id, account)

SpecStore == InitStore /\ [][NextStore]_vars


(***************************************************************************)
(* SubscriptionStore._normalize_account on its own, over every string of   *)
(* up to MaxAccountLen characters and every URL with such a tail.          *)
(***************************************************************************)
AccountChars == { "a", "@", "/", " " }
StringsUpTo(chars, n) == UNION { [1..k -> chars] : k \in 0..n }
AccountInputs ==
    StringsUpTo(AccountChars, MaxAccountLen)
        \cup { HTTPS_PREFIX \o tail : tail \in StringsUpTo(AccountChars, MaxAccountLen - 1) }
        \cup { HTTP_PREFIX \o tail : tail \in StringsUpTo(AccountChars, MaxAccountLen - 1) }

\* one call per behaviour: the functions keep nothing from call to call
PureCall(fn, arg, result) ==
    /\ pure_call = NoPureCall
    /\ pure_call' = [fn |-> fn, arg |-> arg, result |-> result]
    /\ UNCHANGED << clock, stop_event, pc, subscriptions, idx, now, engine, stores,
                    redis_mode, polls, ticks, history, dedup_outage, watermark_missed,
                    before_restart, filter_call, store_call, in_progress, lifecycle >>

NormalizeAccount(value) ==
    /\ \E result \in { normalize_account(value) } :
          PureCall("normalize_account", value, result)

InitNormalize == InitWith({ EmptyStore }, { "no_store" })

NextNormalize == \E value \in AccountInputs : NormalizeAccount(value)

SpecNormalize == InitNormalize /\ [][NextNormalize]_vars


(***************************************************************************)
(* parse_keyword_input on its own, over None, every string of up to        *)
(* MaxKeywordInputLen characters and the input of the documented example.  *)
(***************************************************************************)
KeywordChars == { "A", "b", ",", "\n", " ", "nbsp" }
KeywordExample == << "A", ",", " ", "b", "\n", "C" >>
KeywordInputs ==
    StringsUpTo(KeywordChars, MaxKeywordInputLen) \cup { NoneStr, KeywordExample }

ParseKeywordInput(value) ==
    /\ \E result \in { parse_keyword_input(value) } :
          PureCall("parse_keyword_input", value, result)

InitKeywords == InitWith({ EmptyStore }, { "no_store" })

NextKeywords == \E value \in KeywordInputs : ParseKeywordInput(value)

SpecKeywords == InitKeywords /\ [][NextKeywords]_vars


(***************************************************************************)
(* TweetPoller._is_repost on its own, over every text of up to             *)
(* MaxRepostLen characters, the katakana prefix with a character before    *)
(* or after it, and the texts of test_is_repost_detection.                 *)
(***************************************************************************)
MaxRepostLen == 4
RepostChars == { "R", "t", "o", "@", "nbsp", "\n" }
RT_AT_FOO == << "R", "T", " ", "@", "f", "o", "o", " ", "h", "i" >>
RT_NBSP == << "R", "T", "nbsp", "T", "e", "s", "t" >>
RTO == << "r", "t", "o", " ", "x" >>
PLAIN_TEXT == << "h", "i", " ", "r", "t" >>
RepostExamples == { RT_PREFIX, RT_AT_FOO, RT_NBSP, RTO, PLAIN_TEXT }
RepostInputs ==
    StringsUpTo(RepostChars, MaxRepostLen)
        \cup { head \o RT_JA \o tail : head \in StringsUpTo(RepostChars, 1),
                                       tail \in StringsUpTo(RepostChars, 1) }
        \cup RepostExamples

IsRepost(text) ==
    /\ \E result \in { << is_repost(text) >> } :
          PureCall("is_repost", text, result)

InitRepost == InitWith({ EmptyStore }, { "no_store" })

NextRepost == \E text \in RepostInputs : IsRepost(text)

SpecRepost == InitRepost /\ [][NextRepost]_vars


(***************************************************************************)
(* RssHubClient.fetch_latest_posts on its own, after a successful          *)
(* response.  A parsed entry is given by its guid (which feedparser also   *)
(* answers for the key id) and its link, each absent, empty or present;    *)
(* the feeds are all those of up to MaxRawFeedLen entries and one of       *)
(* MAXIMUM_RESULTS + 1 entries without guid and link.                      *)
(***************************************************************************)
RawGuids == { NoneStr, EMPTY, P1 }
RawLinks == { NoneStr, EMPTY, U1 }
RawEntries == RawGuids \X RawLinks
RawFeeds ==
    UNION { [1..n -> RawEntries] : n \in 0..MaxRawFeedLen }
        \cup { [i \in 1..(MAXIMUM_RESULTS + 1) |-> << NoneStr, NoneStr >>] }
FetchAccounts == { FOO, << " ", "@", "@", "f", "o", "o" >> }
MaxResultsArgs == { -1, 0, 1, 2, 5, 100, 101 }

ParsedEntry(pair) ==
    [id |-> pair[1], guid |-> pair[1], link |-> pair[2],
     description |-> << "h", "i" >>, summary |-> NoneStr, title |-> NoneStr]

FetchLatestPosts(account, max_results, feed) ==
    /\ \E result \in { fetch_latest_posts(account, max_results,
                                          [i \in 1..Len(feed) |-> ParsedEntry(feed[i])]) } :
          PureCall("fetch_latest_posts",
                   [account |-> account, max_results |-> max_results, feed |-> feed], result)

InitFetch == InitWith({ EmptyStore }, { "no_store" })

NextFetch ==
    \E account \in FetchAccounts, max_results \in MaxResultsArgs, feed \in RawFeeds :
        FetchLatestPosts(account, max_results, feed)

SpecFetch == InitFetch /\ [][NextFetch]_vars


(***************************************************************************)
(* RedisLinkStore on its own: a store constructed with                     *)
(* max_links_per_channel = MaxLinks receives add_link calls for the keys   *)
(* of DedupKeys, with the backend answering or not, and Redis drops a set   *)
(* whose time to live has run out.                                         *)
(***************************************************************************)
DedupKeys == { P1, P2, P3, U1, U2 }

AddLink(channel_id, link, up) ==
    /\ \E links \in add_link(redis_mode = "connected", up, redis_links[channel_id], link, MaxLinks) :
          redis_links' = [redis_links EXCEPT ![channel_id] = links]
    /\ pure_call' = [fn |-> "add_link",
                     arg |-> [channel_id |-> channel_id, link |-> link,
                              before |-> redis_links[channel_id]],
                     result |-> (redis_mode = "connected" /\ up)]
    /\ UNCHANGED << clock, stop_event, pc, subscriptions, idx, now, engine, data,
                    redis_mode, polls, ticks, history, dedup_outage, watermark_missed,
                    before_restart, filter_call, store_call, in_progress, lifecycle >>

\* line 53: the key is given a time to live, after which Redis deletes it
Expire(channel_id) ==
    /\ redis_links[channel_id] # { }
    /\ redis_links' = [redis_links EXCEPT ![channel_id] = { }]
    /\ pure_call' = [fn |-> "expire",
                     arg |-> [channel_id |-> channel_id, link |-> EMPTY,
                              before |-> redis_links[channel_id]],
                     result |-> TRUE]
    /\ UNCHANGED << clock, stop_event, pc, subscriptions, idx, now, engine, data,
                    redis_mode, polls, ticks, history, dedup_outage, watermark_missed,
                    before_restart, filter_call, store_call, in_progress, lifecycle >>

InitDedup == InitWith({ EmptyStore }, { "no_store", "connected" })

NextDedup ==
    \/ \E channel_id \in Channels, link \in DedupKeys, up \in BOOLEAN :
          AddLink(channel_id, link, up)
    \/ \E channel_id \in Channels : Expire(channel_id)

SpecDedup == InitDedup /\ [][NextDedup]_vars


(***************************************************************************)
(* The engine and the shutdown of the application.                         *)
(***************************************************************************)
ShutdownFeeds == { << Item1 >>, << Item3, Item2, Item1 >> }

InitShutdown == InitWith({ TwoChannels, WatermarkedChannel }, { "no_store" })

NextShutdown ==
    \/ ticks < MaxTicks /\ Tick
    \/ Sleep
    \/ Stop
    \/ MaybePollSkip
    \/ \E feed \in ShutdownFeeds, d \in FetchDurations :
          /\ polls < MaxPolls
          /\ PollOk(feed, 0, d, TRUE)
    \/ Shutdown
    \/ \E feed \in ShutdownFeeds, cancel_at \in 1..MaxFeedLen, d \in FetchDurations :
          /\ polls < MaxPolls
          /\ ShutdownDuringPoll(feed, cancel_at, d, TRUE)

SpecShutdown == InitShutdown /\ [][NextShutdown]_vars


(***************************************************************************)
(* The engine step by step: _poll_subscription as a coroutine that is      *)
(* suspended in the fetch, in each send_message and in the write of the    *)
(* watermark, while the commands of the bot run in between.  in_progress   *)
(* holds the coroutines that were started and have not returned.           *)
(***************************************************************************)
BAR == << "b", "a", "r" >>
\* one channel watching two accounts, both holding a watermark
TwoAccounts ==
    << [channel |-> 1, entries |-> << StoredEntry(FOO, 60, TRUE, << >>, P1),
                                      StoredEntry(BAR, 60, TRUE, << >>, P1) >>] >>
TaskFeeds == { << >>, << Item1 >>, << Item2, Item1 >>, << Item3, Item2, Item1 >> }

\* the locals of one _poll_subscription call and the await it is suspended in
Coroutine(sub, seen_id, at, posts, order, sent, up) ==
    [sub |-> sub, seen_id |-> seen_id, at |-> at, posts |-> posts, order |-> order,
     sent |-> sent, up |-> up]

\* the poll is started as a task of its own and the loop goes on
await_poll_create_task(i) ==
    [pc |-> IF i = Len(subscriptions) THEN "sleep1" ELSE "tick", idx |-> i + 1]
\* lines 50 and 99: start() awaits _maybe_poll_subscription, which awaits
\* _poll_subscription: the loop stays at subscriptions[i] until it returns
await_poll(i) == [pc |-> "await", idx |-> i]

\* history: a poll of key begins with seen_id as its watermark; counted for
\* the keys a command has removed or added again.  fresh tells whether the
\* first poll of a tick that read its list after the command was a first poll
polled(history_of, key, seen_id) ==
    IF key \notin DOMAIN history_of THEN history_of
    ELSE Put(history_of, key,
             [history_of[key] EXCEPT !.polls = @ + 1,
                                     !.poll_tick = ticks,
                                     !.fresh = IF @ = << >> /\ ticks > history_of[key].tick
                                               THEN << is_first_poll(seen_id) >> ELSE @])

\* lines 88-107: the subscription is due; _poll_subscription is entered and
\* suspended in the fetch
BeginPoll ==
    /\ pc = "tick"
    /\ Due(Current)
    /\ \E sub \in { Current } :
       \E s0 \in { Seeded(sub) } :
       \E position \in { await_poll(idx) } :
          /\ state' = Put(state, Key(sub), s0)
          /\ last_seen' = SeededLastSeen(sub)
          /\ account_last_call' = Put(account_last_call, sub.account, clock)
          /\ in_progress' = in_progress
                \cup { Coroutine(sub, s0.last_id, "fetch", << >>, << >>, 0, TRUE) }
          /\ pc' = position.pc
          /\ idx' = position.idx
    /\ polls' = polls + 1
    /\ lifecycle' = polled(lifecycle, Key(Current), Seeded(Current).last_id)
    /\ UNCHANGED << clock, stop_event, subscriptions, now, stores, redis_mode, ticks,
                    history, dedup_outage, watermark_missed, before_restart, filter_call,
                    store_call, pure_call >>

\* coroutine r returns to start(), which goes on with the next subscription
Return(r) ==
    /\ pc = "await"
    /\ in_progress' = in_progress \ { r }
    /\ Advance

\* lines 108-114: the fetch raises after d seconds
FetchRaises(kind, d) ==
    /\ clock + d <= MaxTime
    /\ \E r \in in_progress :
          /\ r.at = "fetch"
          /\ state' = Put(state, Key(r.sub),
                  handle_error(kind, state[Key(r.sub)], clock + d, r.sub.interval_seconds, NoneStr))
          /\ Return(r)
    /\ clock' = clock + d
    /\ UNCHANGED << stop_event, subscriptions, now, last_seen, account_last_call, stores,
                    redis_mode, polls, ticks, history, dedup_outage, watermark_missed,
                    before_restart, filter_call, store_call, pure_call, lifecycle >>

\* lines 115-170: the fetch returns feed after d seconds; the entries to send
\* are collected (the dedup lookups read only) and the coroutine goes on to
\* the sends, to the write of the watermark, or returns
FetchReturns(feed, d, up) ==
    /\ clock + d <= MaxTime
    /\ redis_mode # "connected" => up
    /\ \E r \in in_progress :
       \E posts \in { fetch_latest_posts(r.sub.account,
                          IF ~Truthy(r.seen_id) THEN FIRST_POLL_MAX_RESULTS ELSE STEADY_MAX_RESULTS,
                          feed) } :
       \E order \in { IF posts # << >> /\ ~is_first_poll(r.seen_id)
                      THEN send_order(collect_new_posts(posts, r.seen_id, r.sub, up))
                      ELSE << >> } :
          /\ r.at = "fetch"
          /\ state' = Put(state, Key(r.sub),
                  handle_success(state[Key(r.sub)], clock + d, r.sub.interval_seconds))
          /\ IF posts = << >>
             THEN Return(r)
             ELSE /\ in_progress' = (in_progress \ { r })
                        \cup { Coroutine(r.sub, r.seen_id, IF order = << >> THEN "save" ELSE "send",
                                         posts, order, 0, up) }
                  /\ UNCHANGED << pc, idx >>
    /\ clock' = clock + d
    /\ dedup_outage' = (dedup_outage \/ ~up)
    /\ UNCHANGED << stop_event, subscriptions, now, last_seen, account_last_call, stores,
                    redis_mode, polls, ticks, history, watermark_missed,
                    before_restart, filter_call, store_call, pure_call, lifecycle >>

\* lines 171-185: the next send_message of the coroutine; it raises, which
\* ends start(), or the post is delivered and its keys are recorded
SendMessage(raises) ==
    /\ \E r \in in_progress :
       \E entry \in { IF r.at = "send" THEN r.posts[r.order[r.sent + 1]] ELSE << >> } :
          /\ r.at = "send"
          /\ IF raises
             THEN /\ in_progress' = in_progress \ { r }
                  /\ pc' = "crashed"
                  /\ UNCHANGED << redis_links, sent_ids, sent_links >>
             ELSE /\ \E links \in record_sent_links(redis_links[r.sub.channel_id], record_keys(entry), r.up) :
                        redis_links' = [redis_links EXCEPT ![r.sub.channel_id] = links]
                  /\ sent_ids' = Tally(sent_ids, r.sub.channel_id, << entry.id >>)
                  /\ sent_links' = Tally(sent_links, r.sub.channel_id, << entry.link >>)
                  /\ in_progress' = (in_progress \ { r })
                        \cup { Coroutine(r.sub, r.seen_id,
                                         IF r.sent + 1 = Len(r.order) THEN "save" ELSE "send",
                                         r.posts, r.order, r.sent + 1, r.up) }
                  /\ pc' = pc
    /\ UNCHANGED << clock, stop_event, subscriptions, idx, now, engine, data, redis_mode,
                    polls, ticks, attempts, lastPoll, dedup_outage, watermark_missed,
                    before_restart, filter_call, store_call, pure_call, lifecycle >>

\* lines 121-125, 159-163 and 187-191: last_id is set and persisted, and the
\* coroutine returns
SaveWatermark ==
    /\ \E r \in in_progress :
          /\ r.at = "save"
          /\ state' = Put(state, Key(r.sub), [state[Key(r.sub)] EXCEPT !.last_id = r.posts[1].id])
          /\ last_seen' = Put(last_seen, r.sub.account, r.posts[1].id)
          /\ data' = set_last_tweet_id(data, r.sub.channel_id, r.sub.account, r.posts[1].id)
          /\ Return(r)
    /\ UNCHANGED << clock, stop_event, subscriptions, now, account_last_call, redis_links,
                    redis_mode, polls, ticks, history, dedup_outage, watermark_missed,
                    before_restart, filter_call, store_call, pure_call, lifecycle >>

InitTasks == InitWith({ TwoAccounts }, { "no_store", "connected" })

NextTasks ==
    \/ ticks < MaxTicks /\ Tick
    \/ Sleep
    \/ Stop
    \/ MaybePollSkip
    \/ polls < MaxPolls /\ BeginPoll
    \/ \E kind \in ErrorKinds, d \in FetchDurations : FetchRaises(kind, d)
    \/ \E feed \in TaskFeeds, d \in FetchDurations, up \in BOOLEAN : FetchReturns(feed, d, up)
    \/ \E raises \in BOOLEAN : SendMessage(raises)
    \/ SaveWatermark
    \/ \E account \in { FOO, BAR } : RemoveSubscription(1, account)

SpecTasks == InitTasks /\ [][NextTasks]_vars


(***************************************************************************)
(* The engine step by step together with the commands of the bot on one    *)
(* subscription: remove, add and edit call the store while a tick or a     *)
(* poll is under way.  lifecycle keeps, for a key that was removed or      *)
(* added again, the tick in which that happened and the polls begun since. *)
(***************************************************************************)
CommandFeeds == { << Item2, Item1 >>, << Item3, Item2, Item1 >> }

\* history: a command took the key out of the store
removed(history_of, key) ==
    Put(history_of, key,
        [event |-> "removed", tick |-> ticks, polls |-> 0, poll_tick |-> 0, fresh |-> << >>])
\* history: a command added the key, which had been removed
added(history_of, key) ==
    IF key \in DOMAIN history_of /\ history_of[key].event = "removed"
    THEN Put(history_of, key,
             [event |-> "readded", tick |-> ticks, polls |-> 0, poll_tick |-> 0, fresh |-> << >>])
    ELSE history_of

\* discord_bot.py, the remove command (line 228)
RemoveCommand(channel_id, account) ==
    /\ \E r \in { remove_subscription(data, channel_id, account) } :
          /\ StoreEffect("remove", r, channel_id, account, NoneInt)
          /\ lifecycle' = IF r.saved
                          THEN removed(lifecycle, << channel_id, normalize_account(account) >>)
                          ELSE lifecycle

\* discord_bot.py, the add command (line 137)
AddCommand(channel_id, account, interval_seconds) ==
    /\ \E r \in { add_subscription(data, channel_id, account, interval_seconds, TRUE, FALSE, 0) } :
          /\ StoreEffect("add", r, channel_id, account, interval_seconds)
          /\ lifecycle' = IF r.raised THEN lifecycle
                          ELSE added(lifecycle, << channel_id, normalize_account(account) >>)

\* discord_bot.py, the edit command (line 194)
UpdateCommand(channel_id, account, interval_seconds) ==
    /\ \E r \in { update_subscription(data, channel_id, account, interval_seconds, NoneBool, NoneBool) } :
          /\ StoreEffect("update", r, channel_id, account, interval_seconds)
          /\ UNCHANGED lifecycle

\* one channel watching one account, which holds a watermark
OneAccount ==
    << [channel |-> 1, entries |-> << StoredEntry(FOO, 60, TRUE, << >>, P1) >>] >>

InitCommands == InitWith({ TwoAccounts, OneAccount }, { "no_store" })

NextCommands ==
    \/ ticks < MaxTicks /\ Tick
    \/ Sleep
    \/ MaybePollSkip
    \/ polls < MaxPolls /\ BeginPoll
    \/ \E feed \in CommandFeeds, d \in FetchDurations : FetchReturns(feed, d, TRUE)
    \/ SendMessage(FALSE)
    \/ SaveWatermark
    \/ RemoveCommand(1, FOO)
    \/ AddCommand(1, FOO, 120)
    \/ UpdateCommand(1, FOO, 90)

SpecCommands == InitCommands /\ [][NextCommands]_vars


(***************************************************************************)
(* The engine with a connected dedup store, over feeds whose items come    *)
(* without a link: the client gives each of them the link of the account.  *)
(***************************************************************************)
\* an item that has an id and no link
Item5 == RawItem(P3, NoneStr, << "y", "o" >>)
LinklessFeeds == { << Item4 >>, << Item5, Item4 >>, << Item2, Item1 >>, << Item3, Item2, Item1 >> }

InitLinkless == InitWith({ TwoChannels, WatermarkedChannel }, { "connected" })

NextLinkless ==
    \/ ticks < MaxTicks /\ Tick
    \/ Sleep
    \/ MaybePollSkip
    \/ \E feed \in LinklessFeeds, d \in FetchDurations, up \in BOOLEAN :
          /\ polls < MaxPolls
          /\ PollOk(feed, 0, d, up)

SpecLinkless == InitLinkless /\ [][NextLinkless]_vars


(***************************************************************************)
(* Properties.  lastPoll describes the most recent fetch attempt: the      *)
(* state of its subscription on entry (pre, seen_id), the times of the     *)
(* tick, the request and the handler, what was fetched and what was sent.  *)
(***************************************************************************)
Polled == lastPoll.kind # "none"
Failed == lastPoll.kind \in ErrorKinds
After == state[lastPoll.key]
DecimalRetryAfter ==
    /\ lastPoll.retry_after # NoneStr /\ lastPoll.retry_after # EMPTY
    /\ \A i \in 1..Len(lastPoll.retry_after) : IsDecimal(lastPoll.retry_after[i])

\* C1: while the dedup store has been reachable throughout, no entry id is
\* sent to a channel more than once, within one poll or across polls.
C1_AtMostOnce ==
    ~dedup_outage => \A k \in DOMAIN sent_ids : sent_ids[k] <= 1

C3_WatermarkIsNewest ==
    (lastPoll.kind = "ok" /\ ~lastPoll.raised /\ lastPoll.posts # << >>) =>
        After.last_id = lastPoll.posts[1].id

\* a steady-state poll whose entries before the watermark were all filtered out
C3_Witness ==
    /\ lastPoll.kind = "ok" /\ ~lastPoll.raised /\ lastPoll.seen_id = P1
    /\ Len(lastPoll.posts) >= 2 /\ lastPoll.posts[1].id # P1
    /\ lastPoll.sends = << >>
    /\ After.last_id = lastPoll.posts[1].id

\* C4: a fetch attempt for an account is issued at least 30 seconds after
\* the previous attempt for that account, whatever the channel or outcome.
C4_AccountSpacing ==
    (Polled /\ lastPoll.prev_call # NoTime) =>
        lastPoll.request_time - lastPoll.prev_call >= 30

\* the second channel fetches exactly 30 seconds after a failed fetch of the first
C4_Witness ==
    /\ Polled /\ lastPoll.key[1] = 2
    /\ lastPoll.prev_call # NoTime
    /\ lastPoll.request_time - lastPoll.prev_call = 30
    /\ (<< 1, FOO >> \in DOMAIN attempts) /\ attempts[<< 1, FOO >>].kind = "network"
    /\ attempts[<< 1, FOO >>].time = lastPoll.prev_call

\* C5: in a steady-state poll the entries are sent oldest first (the send
\* order descends through the fetch order) and no entry at or after the
\* watermark entry is sent.
C5_OldestFirst ==
    (lastPoll.kind = "ok" /\ lastPoll.seen_id # NoneStr) =>
        /\ \A i, j \in 1..Len(lastPoll.sends) : i < j => lastPoll.sends[i] > lastPoll.sends[j]
        /\ \A i \in 1..Len(lastPoll.sends) : \A j \in 1..lastPoll.sends[i] :
              lastPoll.posts[j].id # lastPoll.seen_id

\* two entries sent, the older first, and the watermark entry behind them
C5_Witness ==
    /\ lastPoll.kind = "ok" /\ lastPoll.seen_id = P1
    /\ lastPoll.sends = << 2, 1 >>
    /\ Len(lastPoll.posts) = 3 /\ lastPoll.posts[3].id = P1

\* C6: a 429 without a decimal-integer Retry-After, met with multiplier m,
\* leaves next_run at least max(interval, 60) * m after the time of the
\* response and the multiplier at min(2 * m, 16).
C6_Backoff ==
    (lastPoll.kind = "429" /\ ~DecimalRetryAfter) =>
        LET m == lastPoll.pre.backoff_multiplier
            base == IF lastPoll.interval >= 60 THEN lastPoll.interval ELSE 60
        IN  /\ After.next_run >= lastPoll.t_after + base * m
            /\ After.backoff_multiplier = (IF 2 * m <= 16 THEN 2 * m ELSE 16)
            /\ m \in { 1, 2, 4, 8, 16 }

\* C7: a 429 with a decimal-integer Retry-After r sets next_run to
\* max(next_run, t + max(r, interval)), whatever the multiplier, and doubles
\* the multiplier up to 16.
C7_RetryAfter ==
    (lastPoll.kind = "429" /\ DecimalRetryAfter) =>
        LET m == lastPoll.pre.backoff_multiplier
            r == ParseInt(lastPoll.retry_after)
            backoff == IF r >= lastPoll.interval THEN r ELSE lastPoll.interval
            t == lastPoll.t_after + backoff
        IN  /\ After.next_run = (IF lastPoll.pre.next_run >= t THEN lastPoll.pre.next_run ELSE t)
            /\ After.backoff_multiplier = (IF 2 * m <= 16 THEN 2 * m ELSE 16)

\* Retry-After: 90 on a subscription polled every 30 seconds whose multiplier is 4
C7_Witness ==
    /\ lastPoll.kind = "429" /\ lastPoll.retry_after = << "9", "0" >>
    /\ lastPoll.interval = 30
    /\ lastPoll.pre.backoff_multiplier = 4
    /\ After.next_run = lastPoll.t_after + 90

\* C8: a successful fetch, also of no entries, resets the multiplier to 1;
\* a 403, another HTTP error and a network error leave it as it was.
C8_MultiplierReset ==
    /\ lastPoll.kind = "ok" => After.backoff_multiplier = 1
    /\ lastPoll.kind \in { "403", "http", "network" } =>
          After.backoff_multiplier = lastPoll.pre.backoff_multiplier

\* an empty successful fetch after a 429
C8_Witness ==
    /\ lastPoll.kind = "ok" /\ lastPoll.posts = << >>
    /\ lastPoll.pre.backoff_multiplier = 2
    /\ After.backoff_multiplier = 1

\* C9: a poll whose fetch fails leaves last_id and the persisted watermark
\* as they were, sends nothing and adds nothing to the dedup store.
C9_FailedFetchFrame ==
    [][(polls' = polls + 1 /\ lastPoll'.kind \in ErrorKinds) =>
          /\ state'[lastPoll'.key].last_id = lastPoll'.seen_id
          /\ (lastPoll'.key \in DOMAIN state => state[lastPoll'.key].last_id \in { NoneStr, lastPoll'.seen_id })
          /\ data' = data
          /\ redis_links' = redis_links
          /\ sent_ids' = sent_ids /\ sent_links' = sent_links
          /\ lastPoll'.sends = << >>]_vars

\* a failed fetch of a subscription that has a watermark and sent entries before
C9_Witness ==
    /\ Failed /\ lastPoll.key[1] = 2
    /\ After.last_id = P3
    /\ \E k \in DOMAIN sent_ids : k[1] = 2 /\ sent_ids[k] > 0
    /\ redis_links[2] # { }

\* C10: a subscription is not fetched again before interval seconds after a
\* fetch that succeeded or failed with an error other than 429 and 403, nor
\* before max(interval, 60) seconds after a fetch that failed with 403.
C10_NextFetch ==
    LET prev == lastPoll.prev_attempt
    IN  (Polled /\ prev.time # NoTime) =>
            /\ prev.kind \in { "ok", "http", "network" } =>
                  lastPoll.request_time >= prev.time + prev.interval
            /\ prev.kind = "403" =>
                  lastPoll.request_time >= prev.time + (IF prev.interval >= 60 THEN prev.interval ELSE 60)

\* the channel polled every 30 seconds is fetched again after a 403
C10_Witness ==
    /\ Polled /\ lastPoll.prev_attempt.kind = "403"
    /\ lastPoll.prev_attempt.interval = 30
    /\ lastPoll.request_time < lastPoll.prev_attempt.time + 70

\* C11: when a send raises for one entry of a batch, the remaining entries of
\* the batch are still attempted and the engine goes on, so that the failed
\* entry is attempted again on the next poll.
C11_SendFailureContained ==
    (lastPoll.kind = "ok" /\ lastPoll.raised) =>
        /\ Len(lastPoll.sends) = Len(lastPoll.new_posts) - 1
        /\ pc # "crashed"

\* C12: no error ends the engine: start() is left only after stop() was called.
C12_OnlyStopTerminates ==
    pc \in { "done", "crashed" } => stop_event

C14_WatermarkOnly ==
    (redis_mode = "no_store" /\ ~watermark_missed) =>
        /\ \A k \in DOMAIN sent_ids : sent_ids[k] <= 1
        /\ (lastPoll.kind = "ok" /\ ~lastPoll.first) =>
              \A i \in 1..Len(lastPoll.sends) :
                 lastPoll.sends[i] < WatermarkIndex(lastPoll.posts, lastPoll.seen_id)

\* C15: once stop() has set the flag, no further tick iteration begins, the
\* tick in flight runs to its end with no poll interrupted between its
\* sends, and the loop then ends.
C15_StopIsCooperative ==
    [][/\ (stop_event /\ pc = "loop") => pc' = "done"
       /\ (stop_event' /\ pc = "tick") => pc' \in { "tick", "sleep1" }
       /\ stop_event' => lastPoll'.kind # "cancelled"]_vars

\* C16: stop() does not return before the tick that was in flight when it
\* was called has completed (stop() has returned as soon as the flag is set).
C16_StopWaitsForTick ==
    stop_event => pc # "tick"

\* C17: after a restart, the first poll of a subscription that has a
\* persisted watermark starts from that watermark, is a steady-state poll,
\* sends nothing at or behind the watermark entry and, when the batch holds
\* the watermark entry, sends no entry that was sent before the restart.
C17_RestartSeedsWatermark ==
    [][(/\ polls' = polls + 1
        /\ lastPoll'.kind = "ok"
        /\ before_restart.happened
        /\ lastPoll'.prev_attempt.kind = "none"
        /\ Truthy(get_last_tweet_id(data, Current.channel_id, Current.account))) =>
          LET posts == lastPoll'.posts
              sends == lastPoll'.sends
              stop == WatermarkIndex(posts, lastPoll'.seen_id)
          IN  /\ lastPoll'.seen_id = get_last_tweet_id(data, Current.channel_id, Current.account)
              /\ ~lastPoll'.first
              /\ \A i \in 1..Len(sends) : sends[i] < stop
              /\ stop <= Len(posts) =>
                    \A i \in 1..Len(sends) :
                       Get(before_restart.sent_ids, << Current.channel_id, posts[sends[i]].id >>, 0) = 0]_vars

\* C18: should_include(entry, sub) is true exactly when reposts are wanted
\* or the entry is none, quotes are wanted or the entry is none, no exclude
\* keyword is a substring of the normalized entry text, and the include list
\* is empty or one of its keywords is a substring of that text.
C18_ShouldInclude ==
    filter_call.called =>
        LET entry == filter_call.entry
            sub == filter_call.subscription
            normalized == normalize_entry_text(entry.text, entry.raw_text)
        IN  filter_call.result <=>
               /\ sub.include_reposts \/ ~is_repost(entry.text)
               /\ sub.include_quotes \/ ~is_quote(entry.text, entry.raw_text)
               /\ \A i \in 1..Len(sub.exclude_keywords) : ~Contains(normalized, sub.exclude_keywords[i])
               /\ \/ sub.include_keywords = << >>
                  \/ \E i \in 1..Len(sub.include_keywords) : Contains(normalized, sub.include_keywords[i])

\* an entry that matches an include keyword and an exclude keyword is excluded
C18_Witness ==
    /\ filter_call.called
    /\ filter_call.entry.text = << "A", "b" >>
    /\ filter_call.entry.raw_text = << "<", "b", ">", "x", "<", "/", "b", ">" >>
    /\ filter_call.subscription.include_keywords = << << "a", "b" >>, << "h", "i" >> >>
    /\ filter_call.subscription.exclude_keywords = << << "x" >> >>
    /\ ~filter_call.result

\* C19: after any sequence of add, update and remove calls each channel
\* holds at most one subscription per account, accounts being compared
\* without regard to case after normalization.
C19_UniqueAccounts ==
    \A b \in 1..Len(data) :
        \A i, j \in 1..Len(data[b].entries) :
            Lower(data[b].entries[i].account) = Lower(data[b].entries[j].account) => i = j

\* C20: from an empty store, after any add_subscription and
\* update_subscription calls every subscription get_subscriptions returns has
\* interval_seconds >= min_interval_seconds.
C20_IntervalFloor ==
    \A i \in 1..Len(get_subscriptions(data)) :
        get_subscriptions(data)[i].interval_seconds >= min_interval_seconds

\* an update that names no interval went through, after an add below the
\* floor was refused or not: the stored subscription is returned
C20_Witness ==
    /\ store_call.op = "update"
    /\ ~store_call.raised
    /\ store_call.interval_seconds = NoneInt
    /\ \E i \in 1..Len(get_subscriptions(data)) :
          /\ get_subscriptions(data)[i].channel_id = store_call.channel_id
          /\ get_subscriptions(data)[i].interval_seconds = 120

\* C21: an add or update that is rejected (interval below the floor, account
\* that fails normalization, update of an account not watched in the channel)
\* raises and leaves the store's in-memory data, the persisted file and the
\* engine state as they were.
C21_RejectedLeavesNoTrace ==
    [][(/\ store_call'.calls = store_call.calls + 1
        /\ store_call'.op \in { "add", "update" }
        /\ store_call'.raised)
          => /\ data' = data
             /\ ~store_call'.saved
             /\ engine' = engine]_vars

\* C22: account normalization trims, strips trailing slashes, keeps what
\* follows the last slash of a URL and strips one leading at-sign; it reports
\* an error whenever the result is empty, so it never returns an empty account.
C22_NeverEmptyAccount ==
    pure_call.fn = "normalize_account" => pure_call.result # EMPTY

\* C23: parse_keyword_input splits its input on runs of ',' and newline,
\* normalizes each piece (NFKC, case-fold, outer trim), drops the empty ones
\* and keeps the order; "A, b\nC" gives ("a", "b", "c"), absent or empty input
\* gives the empty tuple.  The pieces are stated by their positions: a piece
\* is a maximal stretch without separator.
KeywordPieces(value) ==
    { seg \in (1..Len(value)) \X (1..Len(value)) :
        /\ seg[1] <= seg[2]
        /\ \A i \in seg[1]..seg[2] : value[i] \notin { ",", "\n" }
        /\ seg[1] = 1 \/ value[seg[1] - 1] \in { ",", "\n" }
        /\ seg[2] = Len(value) \/ value[seg[2] + 1] \in { ",", "\n" } }

NormalPiece(value, seg) ==
    Strip(Lower(MapStr(SubSeq(value, seg[1], seg[2]), NFKCChar)))

C23_ParseKeywordInput ==
    pure_call.fn = "parse_keyword_input" =>
        LET value == pure_call.arg
            result == pure_call.result
            kept == IF value = NoneStr THEN { }
                    ELSE { seg \in KeywordPieces(value) : NormalPiece(value, seg) # EMPTY }
        IN  /\ Len(result) = Cardinality(kept)
            /\ \A seg \in kept :
                  result[1 + Cardinality({ other \in kept : other[1] < seg[1] })]
                      = NormalPiece(value, seg)
            /\ value = KeywordExample => result = << << "a" >>, << "b" >>, << "c" >> >>
            /\ value \in { NoneStr, EMPTY } => result = << >>

\* the documented example has been parsed
C23_Witness ==
    /\ pure_call.fn = "parse_keyword_input"
    /\ pure_call.arg = KeywordExample
    /\ pure_call.result = << << "a" >>, << "b" >>, << "c" >> >>

C25_MultiplierValues ==
    \A k \in DOMAIN state : state[k].backoff_multiplier \in { 1, 2, 4, 8, 16 }

\* a 429 met the multiplier at the cap and left it there
C25_Witness ==
    /\ lastPoll.kind = "429"
    /\ lastPoll.pre.backoff_multiplier = 16
    /\ state[lastPoll.key].backoff_multiplier = 16

\* C26: in a steady-state poll whose fetch succeeded with a non-empty result,
\* last_id is advanced to the newest id and the watermark is persisted whether
\* new_posts is empty or not, and even when a send of that poll raises.
C26_WatermarkAdvancesRegardless ==
    (lastPoll.kind = "ok" /\ ~lastPoll.first /\ lastPoll.posts # << >>) =>
        /\ state[lastPoll.key].last_id = lastPoll.posts[1].id
        /\ get_last_tweet_id(data, lastPoll.key[1], lastPoll.key[2]) = lastPoll.posts[1].id

\* C27: when the rate gate denies a subscription, maybe_poll issues no fetch,
\* sets next_run to max(next_run, last_call + 30) and leaves last_id (beyond
\* seeding), backoff_multiplier, the account call log, the watermark store and
\* the dedup store unchanged.
C27_RateGateDenial ==
    [][(/\ pc = "tick"
        /\ LastCall(Current) \notin { NoTime, 0 }
        /\ now < LastCall(Current) + 30
        /\ stop_event' = stop_event
        /\ idx' # idx \/ pc' # pc)
          => /\ polls' = polls
             /\ account_last_call' = account_last_call
             /\ state'[Key(Current)].next_run
                   = Max(Seeded(Current).next_run, LastCall(Current) + 30)
             /\ state'[Key(Current)].last_id = Seeded(Current).last_id
             /\ state'[Key(Current)].backoff_multiplier
                   = Get(state, Key(Current), NewState).backoff_multiplier
             /\ \A k \in DOMAIN state : k # Key(Current) => state'[k] = state[k]
             /\ data' = data
             /\ redis_links' = redis_links
             /\ sent_ids' = sent_ids]_vars

\* two due subscriptions share the account: in the tick in which channel 1
\* was fetched, channel 2 was pushed to 30 seconds after that fetch, and one
\* fetch was made
C27_Witness ==
    /\ polls = 1
    /\ lastPoll.key = << 1, FOO >>
    /\ lastPoll.now = now
    /\ << 2, FOO >> \in DOMAIN state
    /\ state[<< 2, FOO >>].next_run = account_last_call[FOO] + 30
    /\ state[<< 2, FOO >>].last_id = P1

\* C28: the engine adds a key to a channel's dedup set only for an entry
\* whose send to that channel has succeeded (entries rejected by the filter,
\* skipped as duplicates or whose send failed contribute none), and after a
\* successful send the entry's non-empty id and non-empty link have been
\* added.  SentKeys: the ids and links of the entries sent by the poll.
SentKeys(poll) ==
    { poll.posts[poll.sends[i]].id : i \in 1..Len(poll.sends) }
        \cup { poll.posts[poll.sends[i]].link : i \in 1..Len(poll.sends) }

KeysOnlyOfSentEntries ==
    IF polls' = polls + 1 /\ lastPoll'.kind = "ok"
    THEN /\ \A c \in DOMAIN redis_links :
               c # lastPoll'.key[1] => redis_links'[c] = redis_links[c]
         /\ (redis_links'[lastPoll'.key[1]] \ redis_links[lastPoll'.key[1]])
               \subseteq SentKeys(lastPoll')
    ELSE redis_links' = redis_links

KeysOfSentEntriesAdded ==
    (polls' = polls + 1 /\ lastPoll'.kind = "ok") =>
        \A i \in 1..Len(lastPoll'.sends) :
            LET entry == lastPoll'.posts[lastPoll'.sends[i]]
            IN  /\ Truthy(entry.id) => entry.id \in redis_links'[lastPoll'.key[1]]
                /\ Truthy(entry.link) => entry.link \in redis_links'[lastPoll'.key[1]]

\* the claim as stated, for an engine that was given a connected dedup store
C28_KeysAfterSend ==
    [][KeysOnlyOfSentEntries /\ (redis_mode = "connected" => KeysOfSentEntriesAdded)]_vars

\* the claim for the polls during which the dedup store is reachable
C28_KeysAfterSendWhileReachable ==
    [][KeysOnlyOfSentEntries /\ (lastPoll'.dedup => KeysOfSentEntriesAdded)]_vars

\* with the dedup store reachable, one entry was sent and recorded by id and
\* link, and the entry whose send then failed left no key
C28_Witness ==
    /\ lastPoll.kind = "ok" /\ lastPoll.dedup /\ lastPoll.raised
    /\ Len(lastPoll.sends) = 1 /\ Len(lastPoll.new_posts) = 2
    /\ lastPoll.posts[lastPoll.sends[1]].id \in redis_links[lastPoll.key[1]]
    /\ lastPoll.posts[lastPoll.sends[1]].link \in redis_links[lastPoll.key[1]]
    /\ \A i \in 1..2 :
          lastPoll.new_posts[i] # lastPoll.sends[1] =>
             /\ lastPoll.posts[lastPoll.new_posts[i]].id \notin redis_links[lastPoll.key[1]]
             /\ lastPoll.posts[lastPoll.new_posts[i]].link \notin redis_links[lastPoll.key[1]]

Polling == { Key(r.sub) : r \in in_progress }
\* the coroutines suspended in a send_message for the key
Sending(key) == { r \in in_progress : r.at = "send" /\ Key(r.sub) = key }

\* C30: at most one poll is in progress at any time; while it is, start()
\* stays at its subscription and examines no other one, so that the loop is
\* at a subscription, at the head of a tick or in a sleep only when no poll
\* is in progress, and no two sends for one (channel, account) overlap
C30_OnePollAtATime ==
    /\ Cardinality(in_progress) <= 1
    /\ in_progress # { } => pc = "await" /\ Polling = { Key(Current) }
    /\ pc \in { "tick", "loop", "sleep1", "sleep5", "done" } => in_progress = { }
    /\ \A r \in in_progress : Cardinality(Sending(Key(r.sub))) <= 1

\* the second subscription of a tick is in the middle of its sends after the
\* poll of the first one delivered a post
C30_Witness ==
    /\ idx = 2
    /\ \E r \in in_progress : r.at = "send" /\ r.sent = 1 /\ Len(r.order) = 2
    /\ Get(sent_ids, << 1, P2 >>, 0) >= 2


\* C35: for every subscription next_run never decreases: no rate-gate
\* deferral, successful fetch, 429, 403 or other error sets it to a value
\* earlier than the one it had
C35_NextRunNeverDecreases ==
    [][\A k \in DOMAIN state :
          /\ k \in DOMAIN state'
          /\ state'[k].next_run >= state[k].next_run]_vars

\* channel 1 was backed off by a 429 beyond the account's slot, channel 2 was
\* fetched later, and the third tick found channel 1 behind the rate gate,
\* whose deferral is earlier than the next_run it already had
C35_Witness ==
    /\ ticks = 3
    /\ polls = 2
    /\ pc = "tick"
    /\ idx = 2
    /\ << 1, FOO >> \in DOMAIN state
    /\ state[<< 1, FOO >>].backoff_multiplier = 2
    /\ FOO \in DOMAIN account_last_call
    /\ now < account_last_call[FOO] + ACCOUNT_MIN_INTERVAL_SECONDS
    /\ state[<< 1, FOO >>].next_run > account_last_call[FOO] + ACCOUNT_MIN_INTERVAL_SECONDS


\* C36: whenever add_link(channel, key) returns True, a has_link(channel, key)
\* that follows at once (the backend answering) returns True, also when the
\* channel's set is at its size bound
C36_ReadYourWrite ==
    (pure_call.fn = "add_link" /\ pure_call.result)
        => has_link(redis_mode = "connected", TRUE,
                    redis_links[pure_call.arg.channel_id], pure_call.arg.link)

\* the same, for the adds that found the set below its bound
C36_ReadYourWriteBelowBound ==
    (/\ pure_call.fn = "add_link"
     /\ pure_call.result
     /\ Cardinality(pure_call.arg.before) < MaxLinks)
        => has_link(redis_mode = "connected", TRUE,
                    redis_links[pure_call.arg.channel_id], pure_call.arg.link)


\* the entries of the poll just made that _is_already_sent held back: the
\* indexes, before the watermark, of the posts found in the dedup set as it
\* was when the poll began
Suppressed ==
    { i \in 1..Len(lastPoll'.posts) :
        /\ i < WatermarkIndex(lastPoll'.posts, lastPoll'.seen_id)
        /\ is_already_sent(lastPoll'.key[1], lastPoll'.posts[i].id, lastPoll'.posts[i].link,
                           lastPoll'.dedup) }
SteadyPollStep ==
    /\ polls' = polls + 1
    /\ lastPoll'.kind = "ok"
    /\ ~lastPoll'.first

\* C37: a steady-state poll skips an entry as already sent only if an entry
\* with the same id was sent successfully to the same channel before; entries
\* with different ids never suppress one another
C37_NoFalseSuppression ==
    [][SteadyPollStep =>
          \A i \in Suppressed :
             Get(sent_ids, << lastPoll'.key[1], lastPoll'.posts[i].id >>, 0) > 0]_vars

\* the same with the link taken into account: the entry held back has the id
\* or the link of an entry sent to the channel before
C37_SuppressedByIdOrLink ==
    [][SteadyPollStep =>
          \A i \in Suppressed :
             \E key \in { lastPoll'.posts[i].id, lastPoll'.posts[i].link } :
                \/ Get(sent_ids, << lastPoll'.key[1], key >>, 0) > 0
                \/ Get(sent_links, << lastPoll'.key[1], key >>, 0) > 0]_vars


\* position q of text holds the first character of a line that is not
\* white space
FirstOfLine(text, q) ==
    /\ ~IsSpace(text[q])
    /\ \E p \in 1..q :
          /\ p = 1 \/ IsLineBreak(text[p - 1])
          /\ \A j \in p..(q - 1) : IsSpace(text[j]) /\ ~IsLineBreak(text[j])
\* text reads word at position q, letter case apart
ReadsAt(text, q, word) ==
    /\ q + Len(word) - 1 <= Len(text)
    /\ \A j \in 1..Len(word) : LowerChar(text[q + j - 1]) = word[j]
RepostLineAt(text, q) ==
    /\ FirstOfLine(text, q)
    /\ \/ ReadsAt(text, q, RT_JA)
       \/ /\ ReadsAt(text, q, RT_PREFIX)
          /\ q + 2 > Len(text) \/ ~IsAlnum(text[q + 2])

\* C33: an entry is a repost exactly when some non-empty line of its text,
\* trimmed and lower-cased, starts with the katakana word or with "rt"
\* followed by the end of the line or a character that is not alphanumeric;
\* "rt", "RT @foo ..." and "RT" before a non-breaking space are reposts, a
\* line starting with "rto" and ordinary text are not
C33_IsRepost ==
    pure_call.fn = "is_repost" =>
        LET text == pure_call.arg
            result == pure_call.result[1]
        IN  /\ result <=> \E q \in 1..Len(text) : RepostLineAt(text, q)
            /\ text \in { RT_PREFIX, RT_AT_FOO, RT_NBSP } => result
            /\ text \in { RTO, PLAIN_TEXT } => ~result

\* "RT" followed by a non-breaking space has been classified as a repost
C33_Witness ==
    /\ pure_call.fn = "is_repost"
    /\ pure_call.arg = RT_NBSP
    /\ pure_call.result = << TRUE >>


\* the store holds a subscription for the key
Stored(d, key) == \E i \in 1..Len(get_subscriptions(d)) : Key(get_subscriptions(d)[i]) = key
\* a coroutine of a removed subscription writes its watermark and returns
RemovedWrites ==
    \E r \in in_progress :
        /\ r.at = "save"
        /\ r \notin in_progress'
        /\ Key(r.sub) \in DOMAIN lifecycle
        /\ lifecycle[Key(r.sub)].event = "removed"

\* C31: a subscription that remove_subscription has taken out is polled at
\* most once more, and only in the tick whose list was read before the
\* removal; the watermark write of that poll does not put the subscription
\* back into the store and the poll returns to the loop
C31_RemovedPolledOnceMore ==
    [][/\ \A k \in DOMAIN lifecycle' :
             lifecycle'[k].event = "removed" =>
                /\ lifecycle'[k].polls <= 1
                /\ lifecycle'[k].polls = 1 => lifecycle'[k].poll_tick = lifecycle'[k].tick
                /\ ~Stored(data', k)
       /\ RemovedWrites => (data' = data /\ pc' \in { "tick", "sleep1" })]_vars

\* the subscription was removed after the list of the tick was read, it was
\* polled all the same, posts were sent, the watermark write did nothing and
\* the loop went on
C31_Witness ==
    /\ << 1, FOO >> \in DOMAIN lifecycle
    /\ lifecycle[<< 1, FOO >>].event = "removed"
    /\ lifecycle[<< 1, FOO >>].polls = 1
    /\ in_progress = { }
    /\ state[<< 1, FOO >>].last_id = P3
    /\ Get(sent_ids, << 1, P3 >>, 0) = 1
    /\ ~Stored(data, << 1, FOO >>)
    /\ pc = "tick"
    /\ idx = 2


\* C38: when a (channel, account) subscription was removed and the same pair
\* was added again, its first poll after the add (in a tick that read the
\* list after the add) is a first poll (no watermark in the engine: nothing
\* is sent, the watermark is set to the newest id), not a steady-state poll
\* against the old watermark
C38_ReaddedStartsAfresh ==
    \A k \in DOMAIN lifecycle :
        (lifecycle[k].event = "readded" /\ lifecycle[k].fresh # << >>)
            => lifecycle[k].fresh = << TRUE >>


\* _data without the watermarks
WithoutWatermarks(d) ==
    [b \in 1..Len(d) |->
        [d[b] EXCEPT !.entries =
            [i \in 1..Len(d[b].entries) |-> [d[b].entries[i] EXCEPT !.last_tweet_id = NoneStr]]]]
\* a call of add, update or remove completes in this step
CommandStep == store_call'.calls = store_call.calls + 1
\* the key the command is about
CommandKey == << store_call'.channel_id, normalize_account(store_call'.account) >>

\* C32: the calls of add, update and remove interleave with the engine's
\* get_subscriptions and set_last_tweet_id as whole operations: a command
\* changes neither the list the tick has read nor the subscription a poll in
\* progress works on, an add or update of a subscription that exists keeps
\* the watermark the engine wrote, and a step of the engine changes nothing
\* in the store but watermarks (it never writes back what a command changed)
C32_SerializedSnapshots ==
    [][/\ CommandStep =>
             /\ subscriptions' = subscriptions
             /\ in_progress' = in_progress
             /\ (/\ store_call'.op \in { "add", "update" }
                 /\ ~store_call'.raised
                 /\ Stored(data, CommandKey))
                    => get_last_tweet_id(data', CommandKey[1], CommandKey[2])
                          = get_last_tweet_id(data, CommandKey[1], CommandKey[2])
       /\ ~CommandStep => WithoutWatermarks(data') = WithoutWatermarks(data)]_vars

\* during the sends of a poll, an add of the subscription changed its
\* interval: the entry keeps the watermark p2 that an earlier poll had
\* written, and the coroutine and the list of the tick keep the interval read
C32_Witness ==
    /\ store_call.op = "add"
    /\ ~store_call.raised
    /\ get_last_tweet_id(data, 1, FOO) = P2
    /\ \E i \in 1..Len(get_subscriptions(data)) :
          /\ Key(get_subscriptions(data)[i]) = << 1, FOO >>
          /\ get_subscriptions(data)[i].interval_seconds = 120
    /\ \E r \in in_progress :
          /\ Key(r.sub) = << 1, FOO >>
          /\ r.sub.interval_seconds = 60
          /\ r.at = "send"
    /\ \E i \in 1..Len(subscriptions) :
          Key(subscriptions[i]) = << 1, FOO >> /\ subscriptions[i].interval_seconds = 60


(***************************************************************************)
(* The loop of start() for ever: every fetch succeeds and brings nothing   *)
(* new, stop() is never called.  time.monotonic() has no origin and the    *)
(* engine only compares its readings with one another, so each tick reads  *)
(* the clock as TickOrigin and the times kept from earlier ticks are moved *)
(* by the same amount; a time more than TickOrigin seconds old is kept as  *)
(* 0, which every comparison of the engine treats alike.  lastPoll names   *)
(* the subscription fetched last in the tick under way.                    *)
(***************************************************************************)
\* how far back a reading of the clock is told apart
TickOrigin == 100

FourChannels ==
    << [channel |-> 1, entries |-> << StoredEntry(FOO, 60, TRUE, << >>, P1) >>],
       [channel |-> 2, entries |-> << StoredEntry(FOO, 60, TRUE, << >>, P1) >>],
       [channel |-> 3, entries |-> << StoredEntry(FOO, 60, TRUE, << >>, P1) >>],
       [channel |-> 4, entries |-> << StoredEntry(FOO, 60, TRUE, << >>, P1) >>] >>

\* a reading of the clock taken when the clock showed t, once the clock is
\* read as TickOrigin
SinceOrigin(reading, t) ==
    IF reading = NoTime THEN NoTime ELSE Max(reading - (t - TickOrigin), 0)

\* lines 42-48 of start(): the head of one tick
TickAtOrigin ==
    /\ pc = "loop"
    /\ ~stop_event
    /\ \E subs \in { get_subscriptions(data) } :
          /\ subs # << >>
          /\ subscriptions' = subs
    /\ pc' = "tick"
    /\ idx' = 1
    /\ clock' = TickOrigin
    /\ now' = TickOrigin
    /\ state' = [k \in DOMAIN state |->
                    [state[k] EXCEPT !.next_run = SinceOrigin(@, clock)]]
    /\ account_last_call' = [a \in DOMAIN account_last_call |->
                                SinceOrigin(account_last_call[a], clock)]
    /\ lastPoll' = NoPoll
    /\ UNCHANGED << stop_event, last_seen, stores, redis_mode, polls, ticks, sent_ids,
                    sent_links, attempts, dedup_outage, watermark_missed, before_restart,
                    filter_call, store_call, pure_call, in_progress, lifecycle >>

\* asyncio.sleep(1) of line 51 returns after one second
SleepOneSecond ==
    /\ pc = "sleep1"
    /\ clock' = clock + 1
    /\ pc' = "loop"
    /\ UNCHANGED << stop_event, subscriptions, idx, now, engine, stores, redis_mode,
                    polls, ticks, history, dedup_outage, watermark_missed, before_restart,
                    filter_call, store_call, pure_call, in_progress, lifecycle >>

\* _poll_subscription when the fetch returns, after d seconds, a feed with
\* nothing to send
PollQuiet(feed, d) ==
    /\ pc = "tick"
    /\ Due(Current)
    /\ \E sub \in { Current } :
       \E s0 \in { Seeded(sub) } :
       \E posts \in { fetch_latest_posts(sub.account,
                          IF ~Truthy(s0.last_id) THEN FIRST_POLL_MAX_RESULTS ELSE STEADY_MAX_RESULTS,
                          feed) } :
       \E first \in { is_first_poll(s0.last_id) } :
       \E new_posts \in { IF posts # << >> /\ ~first
                          THEN collect_new_posts(posts, s0.last_id, sub, TRUE)
                          ELSE << >> } :
       \E advanced \in { posts # << >> /\ watermark_advances(first, new_posts, FALSE) } :
       \E s1 \in { handle_success(s0, clock + d, sub.interval_seconds) } :
       \E seen \in { SeededLastSeen(sub) } :
          /\ send_order(new_posts) = << >>
          /\ state' = Put(state, Key(sub),
                  IF advanced THEN [s1 EXCEPT !.last_id = posts[1].id] ELSE s1)
          /\ last_seen' = IF advanced THEN Put(seen, sub.account, posts[1].id) ELSE seen
          /\ data' = IF advanced
                     THEN set_last_tweet_id(data, sub.channel_id, sub.account, posts[1].id)
                     ELSE data
          /\ account_last_call' = Put(account_last_call, sub.account, clock)
          /\ lastPoll' = [NoPoll EXCEPT !.kind = "ok", !.key = Key(sub)]
    /\ Advance
    /\ clock' = clock + d
    /\ UNCHANGED << stop_event, subscriptions, now, redis_mode, redis_links, polls, ticks,
                    sent_ids, sent_links, attempts, dedup_outage, watermark_missed,
                    before_restart, filter_call, store_call, pure_call, in_progress, lifecycle >>

InitForever == InitWith({ TwoChannels, FourChannels }, { "no_store" })

NextForever ==
    \/ TickAtOrigin
    \/ SleepOneSecond
    \/ MaybePollSkip
    \/ \E feed \in QuietFeeds, d \in FetchDurations : PollQuiet(feed, d)

\* start() runs as one task that nothing cancels: each of its awaits returns
\* and the loop goes on
SpecForever == InitForever /\ [][NextForever]_vars /\ WF_vars(NextForever)

\* C34: when every fetch succeeds and stop() is never called, every
\* subscription of the list is fetched again and again, also when several
\* channels watch one account and share its 30-second slot
C34_FetchedInfinitelyOften ==
    \A channel_id \in 1..4 :
        []<>(Stored(data, << channel_id, FOO >>) => lastPoll.key = << channel_id, FOO >>)

\* two channels sharing the account are both fetched again and again
C34_TwoChannelsTakeTurns ==
    \A channel_id \in 1..2 :
        []<>(data[1].entries[1].interval_seconds = 60 /\ Len(data) = 2
                => lastPoll.key = << channel_id, FOO >>)

====
